---- MODULE Spec2Model ----
(***************************************************************************)
(* Readerly feed ingestion: URL canonicalizer, entry normalisation, the    *)
(* identity resolver / dedup engine (processAtomOrRss), the fetch worker   *)
(* (performFetch), the interval scheduler and the BullMQ fetch queue; the   *)
(* feed, folder and saved-search routes; the frontend's offline queue.     *)
(*                                                                         *)
(* Values.  Every JavaScript value the code handles is a record tagged by  *)
(* its field t:                                                            *)
(*   undef    undefined / null                                             *)
(*   str      a string that new URL() rejects (s is its text)              *)
(*   url      a string that new URL() accepts, given by its parsed parts:  *)
(*            path (the pathname split at "/", so "/" is <<"">> and        *)
(*            "/a/amp/" is <<"a","amp","">>), q (the names of the query    *)
(*            parameters), frag (a fragment is present) and norm (the      *)
(*            string is already in the form URL.toString() prints)         *)
(*   num      a number produced by parseTagValue (s is String(val))        *)
(*   obj      an object of the XML parser: text is its "#text" member and  *)
(*            href its "@_href" member, rel its "@_rel" member             *)
(*   arr      an array (nodes)                                             *)
(*   datestr  a string that Date can parse, date the Date it parses to     *)
(*   hash     a sha256 hex digest, given by the fields that were hashed    *)
(*   null     SQL NULL                                                     *)
(***************************************************************************)
EXTENDS Integers, Sequences, FiniteSets, TLC

Undef == [t |-> "undef"]
Null == [t |-> "null"]
Str(s) == [t |-> "str", s |-> s]
Num(s) == [t |-> "num", s |-> s]
Url(path, q, frag, norm) == [t |-> "url", path |-> path, q |-> q, frag |-> frag, norm |-> norm]
Obj(text, href, rel) == [t |-> "obj", text |-> text, href |-> href, rel |-> rel]
Arr(nodes) == [t |-> "arr", nodes |-> nodes]
DateStr(n) == [t |-> "datestr", v |-> n]
Date(n) == [t |-> "date", v |-> n]

IsString(v) == v.t \in {"str", "url", "datestr"}

\* JavaScript truthiness of a value of the model: undefined, null and "" are falsy.
Truthy(v) == v # Undef /\ v # Null /\ v # Str("")

\* a || b
OrElse(a, b) == IF Truthy(a) THEN a ELSE b

\* a ?? b
Coalesce(a, b) == IF a = Undef \/ a = Null THEN b ELSE a

\* text(val): a string, or undefined; objects resolve through their text-like members.
text(val) ==
  CASE val.t \in {"undef", "null"} -> Undef
    [] IsString(val) -> val
    [] val.t = "num" -> Str(val.s)
    [] val.t = "obj" ->
         IF IsString(val.text) /\ val.text # Str("") THEN val.text
         ELSE IF IsString(val.href) /\ val.href # Str("") THEN val.href
         ELSE Undef
    [] OTHER -> Undef

\* val?.["@_href"] and val?.["@_rel"]: a member of an object, undefined on anything else.
Member(val, name) ==
  IF val.t = "obj" THEN (IF name = "href" THEN val.href ELSE val.rel) ELSE Undef

\* A parseDate that reads any unparsable string as the epoch.
parseDateOrEpoch(s) == IF s.t = "datestr" THEN Date(s.v) ELSE Date(0)

\* parseDate(s): the Date a string parses to, undefined when it is falsy or unparsable.
parseDate(s) == IF s.t = "datestr" THEN Date(s.v) ELSE Undef

\* The tracking parameters canonicalUrl deletes.
dropParams ==
  {"utm_source", "utm_medium", "utm_campaign", "utm_term", "utm_content",
   "gclid", "fbclid", "spm", "igshid", "mc_eid"}

RECURSIVE StripSlashes(_)
\* pathname.replace(/\/+$/, ""): every trailing empty segment goes; an emptied
\* pathname of an http(s) URL reads back as "/".
StripSlashes(p) ==
  IF Len(p) = 0 THEN <<"">>
  ELSE IF p[Len(p)] = "" THEN StripSlashes(SubSeq(p, 1, Len(p) - 1))
  ELSE p

\* The "/amp" suffix rule: pathname.slice(0, -4) || "/".
DropAmp(p) ==
  IF p[Len(p)] = "amp"
  THEN (IF Len(p) = 1 THEN <<"">> ELSE SubSeq(p, 1, Len(p) - 1))
  ELSE p

\* The trailing-slash rule: only for a pathname longer than "/" that ends in "/".
TrimSlash(p) == IF p # <<"">> /\ p[Len(p)] = "" THEN StripSlashes(p) ELSE p

\* canonicalUrl without u.hash = "".
canonicalUrlKeepsFragment(input) ==
  IF ~Truthy(input) THEN Undef
  ELSE IF input.t # "url" THEN input
  ELSE Url(TrimSlash(DropAmp(input.path)), input.q \ dropParams, input.frag, TRUE)

\* canonicalUrl(input)
canonicalUrl(input) ==
  IF ~Truthy(input) THEN Undef
  ELSE IF input.t # "url" THEN input
  ELSE Url(TrimSlash(DropAmp(input.path)), input.q \ dropParams, FALSE, TRUE)

\* /^https?:\/\//i.test(guidRaw): the model's url values are the http(s) ones.
UrlIsh(v) == v.t = "url"

\* hashGuidFallback(feedId, url, title, publishedAt): falsy parts are not hashed.
hashGuidFallback(feedId, url, title, publishedAt) ==
  [t |-> "hash", feedId |-> feedId,
   url |-> IF Truthy(url) THEN url ELSE Undef,
   title |-> IF Truthy(title) THEN title ELSE Undef,
   publishedAt |-> IF Truthy(publishedAt) THEN publishedAt ELSE Undef]

(***************************************************************************)
(* Entry normalisation: the part of processAtomOrRss's loop body that      *)
(* touches no storage.  A raw entry is the parser's object for one <item>  *)
(* or <entry>: a record with the members guid, id, title, link, pubDate,   *)
(* published, updated, encoded ("content:encoded"), content, description.  *)
(***************************************************************************)

\* linkVal.find(l => l?.["@_rel"] === "alternate")
RECURSIVE FindAlternate(_)
FindAlternate(nodes) ==
  IF Len(nodes) = 0 THEN Undef
  ELSE IF Member(Head(nodes), "rel") = Str("alternate") THEN Head(nodes)
  ELSE FindAlternate(Tail(nodes))

\* The link of an entry before canonicalization.
ResolveLink(linkVal) ==
  IF linkVal.t = "arr"
  THEN LET alt == FindAlternate(linkVal.nodes)
           first == IF Len(linkVal.nodes) > 0 THEN linkVal.nodes[1] ELSE Undef
       IN OrElse(OrElse(text(Member(alt, "href")), text(Member(first, "href"))), text(first))
  ELSE OrElse(text(linkVal), text(Member(linkVal, "href")))

\* pickContent(it).html
pickContent(raw) == Coalesce(Coalesce(raw.encoded, raw.content), raw.description)

\* Candidates built from the guid alone.
CandidatesGuidOnly(guid, guidRaw, urlCanon, url) == {c \in {guid, guidRaw} : Truthy(c)}

\* The identity candidates: [guid, guidRaw, urlCanon, url].filter(Boolean) as a set.
Candidates(guid, guidRaw, urlCanon, url) == {c \in {guid, guidRaw, urlCanon, url} : Truthy(c)}

\* An effective guid that prefers the feed-supplied guid to the canonical link.
EffectiveGuidFromGuid(feedId, urlCanon, url, guid, title, pub) ==
  Coalesce(Coalesce(guid, urlCanon), hashGuidFallback(feedId, Coalesce(urlCanon, url), title, pub))

\* urlCanon ?? guid ?? hashGuidFallback(feedId, urlCanon ?? url, title, pub)
EffectiveGuid(feedId, urlCanon, url, guid, title, pub) ==
  Coalesce(Coalesce(urlCanon, guid), hashGuidFallback(feedId, Coalesce(urlCanon, url), title, pub))

\* Everything the loop body computes for one raw entry before it reads the store.
Normalize(feedId, raw) ==
  LET guidRaw == Coalesce(text(raw.guid), text(raw.id))
      guidUrlish == IF Truthy(guidRaw) /\ UrlIsh(guidRaw) THEN canonicalUrl(guidRaw) ELSE Undef
      guid == Coalesce(guidUrlish,
                       IF Truthy(guidRaw) /\ guidRaw # Str("[object Object]") THEN guidRaw ELSE Undef)
      title == text(raw.title)
      link == ResolveLink(raw.link)
      url == Coalesce(canonicalUrl(link), link)
      pub == OrElse(OrElse(parseDate(raw.pubDate), parseDate(raw.published)), parseDate(raw.updated))
      html == pickContent(raw)
      urlCanon == Coalesce(canonicalUrl(url), url)
  IN [guidRaw |-> guidRaw, guid |-> guid, title |-> title, link |-> link, url |-> url,
      urlCanon |-> urlCanon, pub |-> pub, html |-> html, txt |-> Undef,
      candidates |-> Candidates(guid, guidRaw, urlCanon, url),
      effectiveGuid |-> EffectiveGuid(feedId, urlCanon, url, guid, title, pub)]

\* The data object both update calls pass: undefined members leave the column alone.
UpdateData(n) ==
  [title |-> n.title, url |-> Coalesce(n.urlCanon, n.url), contentHtml |-> n.html,
   contentText |-> n.txt, publishedAt |-> n.pub]

\* title ?? urlCanon ?? url ?? "Untitled"
CreateTitle(n) == Coalesce(Coalesce(Coalesce(n.title, n.urlCanon), n.url), Str("Untitled"))

\* The data object of item.create, without feedId and guid.
CreateData(n) ==
  [title |-> CreateTitle(n), url |-> Coalesce(n.urlCanon, n.url), contentHtml |-> n.html,
   contentText |-> n.txt, publishedAt |-> n.pub]

(***************************************************************************)
(* State.                                                                  *)
(*   feeds    the Feed table: feeds[f].exists tells whether the row is     *)
(*            there; a time is a Date of milliseconds, or Null             *)
(*   items    the Item table, a set of rows; the rows of one               *)
(*            (feedId, guid) are told apart by id, numbered from 1         *)
(*   queue    the BullMQ fetch queue: queue[f] jobs wait for feed f        *)
(*   workers  each fetch worker's position in performFetch and its locals  *)
(*   clock    the wall clock, in milliseconds                              *)
(*   lastDoc  history: lastDoc[f] is the document of the latest 2xx cycle  *)
(*            of feed f that ran to its end, as long as nothing else has   *)
(*            written f's items since and no other document was started    *)
(*   aux      auxiliary record: the job a crash interrupted together with  *)
(*            the keys its run would have left; under the specifications   *)
(*            of the pure functions, their inputs and results; under those *)
(*            of the scheduler's faults, of POST /feeds, of the frontend's *)
(*            offline queue and of the folder and saved-search routes, the *)
(*            state described with each of them                            *)
(***************************************************************************)
VARIABLES feeds, items, queue, workers, clock, lastDoc, aux

vars == <<feeds, items, queue, workers, clock, lastDoc, aux>>

FeedIds == {"f1", "f2"}
Workers == {"w1", "w2"}

\* Jobs that may wait for one feed at a time.
MaxQueue == 1
\* Rows POST /items/dev-create adds to one feed.
MaxDevItems == 1

MINUTE == 60000

\* One Item row.
Row(feedId, guid, id, data) ==
  [feedId |-> feedId, guid |-> guid, id |-> id,
   title |-> Coalesce(data.title, Null), url |-> Coalesce(data.url, Null),
   contentHtml |-> Coalesce(data.contentHtml, Null),
   contentText |-> Coalesce(data.contentText, Null),
   publishedAt |-> Coalesce(data.publishedAt, Null)]

\* Prisma validates a data object before it sends SQL: a String or DateTime column
\* takes a string, a Date or undefined, nothing else.
ValidData(data) ==
  /\ data.title = Undef \/ IsString(data.title)
  /\ data.url = Undef \/ IsString(data.url)
  /\ data.contentHtml = Undef \/ IsString(data.contentHtml)
  /\ data.contentText = Undef \/ IsString(data.contentText)
  /\ data.publishedAt = Undef \/ data.publishedAt.t = "date"

\* An UPDATE that sets every column of the data object, NULL for an undefined member.
PatchClears(r, data) ==
  [r EXCEPT !.title = Coalesce(data.title, Null), !.url = Coalesce(data.url, Null),
            !.contentHtml = Coalesce(data.contentHtml, Null),
            !.contentText = Coalesce(data.contentText, Null),
            !.publishedAt = Coalesce(data.publishedAt, Null)]

\* A row after an UPDATE with a data object: undefined members keep the column.
Patch(r, data) ==
  [r EXCEPT !.title = IF data.title = Undef THEN @ ELSE data.title,
            !.url = IF data.url = Undef THEN @ ELSE data.url,
            !.contentHtml = IF data.contentHtml = Undef THEN @ ELSE data.contentHtml,
            !.contentText = IF data.contentText = Undef THEN @ ELSE data.contentText,
            !.publishedAt = IF data.publishedAt = Undef THEN @ ELSE data.publishedAt]

\* A search by guid alone, in the rows of every feed.
FindFirstMatchesAnyFeed(store, feedId, candidates) == {r \in store : r.guid \in candidates}

\* The rows prisma.item.findFirst({where: {feedId, guid: {in: candidates}}}) may return.
FindFirstMatches(store, feedId, candidates) ==
  {r \in store : r.feedId = feedId /\ r.guid \in candidates}

\* The rows of a (feedId, guid) key: what findUnique({where: {feedId_guid}}) looks for.
RowsOfKey(store, feedId, guid) == {r \in store : r.feedId = feedId /\ r.guid = guid}

\* prisma.item.updateMany / update on the rows of a key.
ItemUpdate(store, feedId, guid, data) ==
  {IF r.feedId = feedId /\ r.guid = guid THEN Patch(r, data) ELSE r : r \in store}

\* The Item table without its unique index.
NoUniqueIndex(store, feedId, guid) == FALSE

\* The unique index Item_feedId_guid_key: an INSERT of a non-NULL guid is refused
\* when a row of the feed already carries it.
UniqueViolation(store, feedId, guid) ==
  guid # Null /\ RowsOfKey(store, feedId, guid) # {}

\* ItemCreate with the guid left out of the data object.
ItemCreateWithoutGuid(store, feedId, guid, data) ==
  store \cup {Row(feedId, Null, Cardinality(RowsOfKey(store, feedId, Null)) + 1, data)}

\* prisma.item.create: the new row takes the next id of its key.
ItemCreate(store, feedId, guid, data) ==
  store \cup {Row(feedId, guid, Cardinality(RowsOfKey(store, feedId, guid)) + 1, data)}

Doc(shape, title, entries) == [shape |-> shape, title |-> title, entries |-> entries]

\* No document.
NoDoc == Doc("nodoc", Undef, <<>>)

\* A worker outside a job: result is the outcome of its last performFetch and prev the
\* errorCount that call had loaded.
IdleWorker(prev, result) ==
  [pc |-> "idle", feedId |-> "", prev |-> prev, now |-> 0, etag |-> Undef, lastMod |-> Undef,
   doc |-> NoDoc, i |-> 0, inserted |-> 0, skipped |-> 0, existing |-> Undef,
   result |-> result]

NoResult == [kind |-> "none"]
Returned(status, inserted, skipped) ==
  [kind |-> "returned", status |-> status, inserted |-> inserted, skipped |-> skipped]
\* performFetch returned undefined: the feed row was gone.
Void == [kind |-> "void"]
\* performFetch rejected: the error reaches BullMQ, which marks the job failed.
Raised(at) == [kind |-> "raised", at |-> at]
\* The worker process died inside performFetch.
Crashed == [kind |-> "crashed"]

\* No auxiliary record.
NoAux == [t |-> "none"]
\* The job a crash interrupted: its feed, its document, the entry it was at and the
\* (feedId, guid) keys the run would have left had it gone on.
Interrupted(feedId, doc, at, expect) ==
  [t |-> "crash", feedId |-> feedId, doc |-> doc, at |-> at, expect |-> expect]

(***************************************************************************)
(* The fetch worker: performFetch and, inside it, processAtomOrRss.  Each  *)
(* action is one await of the code together with the synchronous code that *)
(* follows it up to the next await.                                        *)
(***************************************************************************)

Feed(w) == workers[w].feedId

\* The entry the loop is at, normalized.
Entry(w) == Normalize(Feed(w), workers[w].doc.entries[workers[w].i])

\* Where the loop goes for entry k of a document: past the last entry
\* processAtomOrRss returns and performFetch writes the feed's metadata.
EntryPc(feedId, doc, k) ==
  IF k > Len(doc.entries) THEN "meta"
  ELSE IF Normalize(feedId, doc.entries[k]).candidates # {} THEN "findFirst"
  ELSE "findUnique"

\* The worker moves on to the next entry (or out of the loop).
Continue(w, inserted, skipped) ==
  [workers[w] EXCEPT !.pc = EntryPc(Feed(w), workers[w].doc, workers[w].i + 1),
                     !.i = workers[w].i + 1, !.inserted = inserted, !.skipped = skipped,
                     !.existing = Undef]

\* Another worker is inside a 2xx cycle of the same feed.
OtherCycle(w) ==
  \E o \in Workers \ {w} : workers[o].pc \notin {"idle", "fetch"} /\ Feed(o) = Feed(w)

\* The worker leaves performFetch with an outcome.
Finish(w, result) == [workers EXCEPT ![w] = IdleWorker(workers[w].prev, result)]

\* StartJob with performFetch returning at once for a feed inside its backoff window.
StartJobHonoursBackoff(w, f) ==
  /\ workers[w].pc = "idle"
  /\ queue[f] > 0
  /\ queue' = [queue EXCEPT ![f] = @ - 1]
  /\ workers' = IF feeds[f].exists /\ ~(feeds[f].backoffUntil # Null /\ feeds[f].backoffUntil.v > clock)
                THEN [workers EXCEPT ![w] = [IdleWorker(0, NoResult) EXCEPT
                         !.pc = "fetch", !.feedId = f, !.prev = feeds[f].errorCount]]
                ELSE [workers EXCEPT ![w] = IdleWorker(0, Void)]
  /\ UNCHANGED <<feeds, items, clock, lastDoc, aux>>

\* StartJob without the check of the loaded row.
StartJobUnchecked(w, f) ==
  /\ workers[w].pc = "idle"
  /\ queue[f] > 0
  /\ queue' = [queue EXCEPT ![f] = @ - 1]
  /\ workers' = [workers EXCEPT ![w] = [IdleWorker(0, NoResult) EXCEPT
                   !.pc = "fetch", !.feedId = f, !.prev = feeds[f].errorCount]]
  /\ UNCHANGED <<feeds, items, clock, lastDoc, aux>>

\* createWorker's processor takes a job; performFetch loads the feed and returns at
\* once when the row is gone.
StartJob(w, f) ==
  /\ workers[w].pc = "idle"
  /\ queue[f] > 0
  /\ queue' = [queue EXCEPT ![f] = @ - 1]
  /\ workers' = IF feeds[f].exists
                THEN [workers EXCEPT ![w] = [IdleWorker(0, NoResult) EXCEPT
                         !.pc = "fetch", !.feedId = f, !.prev = feeds[f].errorCount]]
                ELSE [workers EXCEPT ![w] = IdleWorker(0, Void)]
  /\ UNCHANGED <<feeds, items, clock, lastDoc, aux>>

\* A success that only stamps lastFetched.
SuccessMetaKeepsErrors(feed, now) == [feed EXCEPT !.lastFetched = Date(now)]

\* A success that also forgets the stored validators.
SuccessMetaDropsValidators(feed, now) ==
  [feed EXCEPT !.lastFetched = Date(now), !.errorCount = 0, !.backoffUntil = Null,
               !.etag = Null, !.lastModified = Null]

\* The metadata a success writes: lastFetched, errorCount 0, backoffUntil null.
SuccessMeta(feed, now) ==
  [feed EXCEPT !.lastFetched = Date(now), !.errorCount = 0, !.backoffUntil = Null]

\* The upstream answers 304.
Http304(w) ==
  /\ workers[w].pc = "fetch"
  /\ IF feeds[Feed(w)].exists
     THEN /\ feeds' = [feeds EXCEPT ![Feed(w)] = SuccessMeta(@, clock)]
          /\ workers' = Finish(w, Returned(304, 0, 0))
     ELSE /\ workers' = Finish(w, Raised("feed.update"))
          /\ UNCHANGED feeds
  /\ UNCHANGED <<items, queue, clock, lastDoc, aux>>

\* prev + 1 without the ceiling.
NextCountUncapped(prev) == prev + 1

\* Math.min(prev + 1, 10)
NextCount(prev) == IF prev + 1 < 10 THEN prev + 1 ELSE 10

RECURSIVE Pow2(_)
Pow2(n) == IF n = 0 THEN 1 ELSE 2 * Pow2(n - 1)

\* The delay without the six-hour cap.
BackoffDelayUncapped(nextCount) == Pow2(nextCount) * MINUTE

\* Math.min(Math.pow(2, nextCount) * 60_000, 6 * 60 * 60 * 1000)
BackoffDelay(nextCount) ==
  LET expMs == Pow2(nextCount) * MINUTE
      capMs == 6 * 60 * 60 * 1000
  IN IF expMs < capMs THEN expMs ELSE capMs

\* The metadata a failure writes.
FailureMeta(feed, prev, now, jitter) ==
  [feed EXCEPT !.lastFetched = Date(now), !.errorCount = NextCount(prev),
               !.backoffUntil = Date(now + BackoffDelay(NextCount(prev)) + jitter)]

\* The upstream answers with a status that is neither 2xx nor 304.
HttpError(w, status, jitter) ==
  /\ workers[w].pc = "fetch"
  /\ IF feeds[Feed(w)].exists
     THEN /\ feeds' = [feeds EXCEPT ![Feed(w)] = FailureMeta(@, workers[w].prev, clock, jitter)]
          /\ workers' = Finish(w, Returned(status, 0, 0))
     ELSE /\ workers' = Finish(w, Raised("feed.update"))
          /\ UNCHANGED feeds
  /\ UNCHANGED <<items, queue, clock, lastDoc, aux>>

\* A rejected fetch() that is caught, recorded as a failure and raised again.
HttpThrowRecorded(w) ==
  /\ workers[w].pc = "fetch"
  /\ feeds' = [feeds EXCEPT ![Feed(w)] = FailureMeta(@, workers[w].prev, clock, 0)]
  /\ workers' = Finish(w, Raised("fetch"))
  /\ UNCHANGED <<items, queue, clock, lastDoc, aux>>

\* fetch() rejects (connection refused, DNS failure, socket timeout): nothing in
\* fetchWithHeaders or performFetch catches it.
HttpThrow(w) ==
  /\ workers[w].pc = "fetch"
  /\ workers' = Finish(w, Raised("fetch"))
  /\ UNCHANGED <<feeds, items, queue, clock, lastDoc, aux>>

\* The upstream answers 2xx with a body XMLParser.parse rejects (an unclosed comment,
\* CDATA section or processing instruction, as in a truncated download): parse throws
\* and nothing around it catches.
ParseThrow(w) ==
  /\ workers[w].pc = "fetch"
  /\ workers' = Finish(w, Raised("parse"))
  /\ UNCHANGED <<feeds, items, queue, clock, lastDoc, aux>>

\* The feed-level title and the entries processAtomOrRss takes from a parsed document.
FeedTitle(doc) == IF doc.shape \in {"rss", "atom"} THEN text(doc.title) ELSE Undef

\* The upstream answers 2xx: the validators and the body are read, the body is parsed,
\* the feed title is written when the document has one, and the entry loop starts.
Http200(w, doc, etag, lastMod) ==
  /\ workers[w].pc = "fetch"
  /\ feeds' = IF Truthy(FeedTitle(doc)) /\ feeds[Feed(w)].exists
              THEN [feeds EXCEPT ![Feed(w)].title = FeedTitle(doc)]
              ELSE feeds
  /\ workers' = [workers EXCEPT ![w] = [@ EXCEPT
                   !.pc = EntryPc(Feed(w), doc, 1), !.i = 1, !.doc = doc,
                   !.now = clock, !.etag = etag, !.lastMod = lastMod]]
  /\ lastDoc' = [lastDoc EXCEPT ![Feed(w)] = IF @ = doc /\ ~OtherCycle(w) THEN doc ELSE NoDoc]
  /\ aux' = IF aux.t = "crash" /\ aux.feedId = Feed(w) /\ aux.doc # doc THEN NoAux ELSE aux
  /\ UNCHANGED <<items, queue, clock>>

\* await prisma.item.findFirst: any row of the feed whose guid is a candidate.
FindFirst(w) ==
  /\ workers[w].pc = "findFirst"
  /\ LET matches == FindFirstMatches(items, Feed(w), Entry(w).candidates)
     IN IF matches = {}
        THEN workers' = [workers EXCEPT ![w].pc = "findUnique"]
        ELSE \E r \in matches :
               workers' = [workers EXCEPT ![w].pc = "updateMany", ![w].existing = r.guid]
  /\ UNCHANGED <<feeds, items, queue, clock, lastDoc, aux>>

\* await prisma.item.updateMany(...).catch(() => {}); skipped++; continue
UpdateMany(w) ==
  /\ workers[w].pc = "updateMany"
  /\ items' = IF ValidData(UpdateData(Entry(w)))
              THEN ItemUpdate(items, Feed(w), workers[w].existing, UpdateData(Entry(w)))
              ELSE items
  /\ workers' = [workers EXCEPT ![w] = Continue(w, @.inserted, @.skipped + 1)]
  /\ UNCHANGED <<feeds, queue, clock, lastDoc, aux>>

\* await prisma.item.findUnique on (feedId, effectiveGuid)
FindUnique(w) ==
  /\ workers[w].pc = "findUnique"
  /\ workers' = [workers EXCEPT ![w].pc =
                   IF RowsOfKey(items, Feed(w), Entry(w).effectiveGuid) # {}
                   THEN "update" ELSE "create"]
  /\ UNCHANGED <<feeds, items, queue, clock, lastDoc, aux>>

\* await prisma.item.update; skipped++
Update(w) ==
  /\ workers[w].pc = "update"
  /\ IF /\ ValidData(UpdateData(Entry(w)))
        /\ RowsOfKey(items, Feed(w), Entry(w).effectiveGuid) # {}
     THEN /\ items' = ItemUpdate(items, Feed(w), Entry(w).effectiveGuid, UpdateData(Entry(w)))
          /\ workers' = [workers EXCEPT ![w] = Continue(w, @.inserted, @.skipped + 1)]
          /\ UNCHANGED lastDoc
     ELSE /\ workers' = Finish(w, Raised("item.update"))
          /\ lastDoc' = [lastDoc EXCEPT ![Feed(w)] = NoDoc]
          /\ UNCHANGED items
  /\ UNCHANGED <<feeds, queue, clock, aux>>

\* await prisma.item.create; inserted++
Create(w) ==
  /\ workers[w].pc = "create"
  /\ IF /\ ValidData(CreateData(Entry(w)))
        /\ feeds[Feed(w)].exists
        /\ ~UniqueViolation(items, Feed(w), Entry(w).effectiveGuid)
     THEN /\ items' = ItemCreate(items, Feed(w), Entry(w).effectiveGuid, CreateData(Entry(w)))
          /\ workers' = [workers EXCEPT ![w] = Continue(w, @.inserted + 1, @.skipped)]
          /\ UNCHANGED lastDoc
     ELSE /\ workers' = Finish(w, Raised("item.create"))
          /\ lastDoc' = [lastDoc EXCEPT ![Feed(w)] = NoDoc]
          /\ UNCHANGED items
  /\ UNCHANGED <<feeds, queue, clock, aux>>

\* The metadata write of a 2xx cycle: an undefined validator leaves the column alone.
Meta200(feed, now, etag, lastMod) ==
  [SuccessMeta(feed, now) EXCEPT
     !.etag = IF etag = Undef THEN @ ELSE etag,
     !.lastModified = IF lastMod = Undef THEN @ ELSE lastMod]

\* await prisma.feed.update after the loop; return {status: 200, inserted, skipped}
Meta(w) ==
  /\ workers[w].pc = "meta"
  /\ IF feeds[Feed(w)].exists
     THEN /\ feeds' = [feeds EXCEPT ![Feed(w)] =
                         Meta200(@, workers[w].now, workers[w].etag, workers[w].lastMod)]
          /\ workers' = Finish(w, Returned(200, workers[w].inserted, workers[w].skipped))
          /\ lastDoc' = [lastDoc EXCEPT ![Feed(w)] =
                           IF OtherCycle(w) THEN NoDoc ELSE workers[w].doc]
     ELSE /\ workers' = Finish(w, Raised("feed.update"))
          /\ lastDoc' = [lastDoc EXCEPT ![Feed(w)] = NoDoc]
          /\ UNCHANGED feeds
  /\ aux' = IF aux.t = "crash" /\ aux.feedId = Feed(w) THEN NoAux ELSE aux
  /\ UNCHANGED <<items, queue, clock>>

RECURSIVE RunKeys(_, _, _, _)
\* The (feedId, guid) keys the entry loop leaves when it runs entries k, k+1, ... of a
\* document to the end on a store with the given keys: an entry with a stored
\* candidate adds nothing, any other entry ends with a row under its effective guid.
RunKeys(keys, feedId, entries, k) ==
  IF k > Len(entries) THEN keys
  ELSE LET n == Normalize(feedId, entries[k])
           hit == \E g \in n.candidates : <<feedId, g>> \in keys
       IN RunKeys(IF hit THEN keys ELSE keys \cup {<<feedId, n.effectiveGuid>>},
                  feedId, entries, k + 1)

\* The worker process dies at an await of performFetch; every write made so far
\* stays, the job was not acknowledged and the queue delivers it again.
Crash(w) ==
  /\ workers[w].pc # "idle"
  /\ queue[Feed(w)] < MaxQueue
  /\ queue' = [queue EXCEPT ![Feed(w)] = @ + 1]
  /\ workers' = Finish(w, Crashed)
  /\ IF workers[w].pc = "fetch"
     THEN UNCHANGED <<aux, lastDoc>>
     ELSE /\ aux' = Interrupted(Feed(w), workers[w].doc, workers[w].i,
                       RunKeys({<<r.feedId, r.guid>> : r \in items}, Feed(w),
                               workers[w].doc.entries, workers[w].i))
          /\ lastDoc' = [lastDoc EXCEPT ![Feed(w)] = NoDoc]
  /\ UNCHANGED <<feeds, items, clock>>

(***************************************************************************)
(* The scheduler, the routes that touch feeds and items, and the clock.    *)
(***************************************************************************)

\* A backoff window that never ends.
InBackoffForever(feed, now) == feed.backoffUntil # Null

\* Respect backoff window if set: backoffUntil && backoffUntil > now
InBackoff(feed, now) == feed.backoffUntil # Null /\ feed.backoffUntil.v > now

\* The interval without the five-minute floor.
IntervalMsNoFloor(feed) == feed.fetchInterval * MINUTE

\* Math.max(5, f.fetchInterval ?? 30) * 60_000; the column is NOT NULL.
IntervalMs(feed) == (IF feed.fetchInterval > 5 THEN feed.fetchInterval ELSE 5) * MINUTE

\* Due only for a feed that was fetched before.
DueOnceFetched(feed, now) ==
  feed.lastFetched # Null /\ now - feed.lastFetched.v >= IntervalMs(feed)

\* !f.lastFetched || now - lastFetched >= intervalMs
Due(feed, now) == feed.lastFetched = Null \/ now - feed.lastFetched.v >= IntervalMs(feed)

\* The decision without the backoff check.
EnqueuesIgnoringBackoff(feed, now) == Due(feed, now)

\* The loop body's decision for one feed of the listing.
Enqueues(feed, now) == ~InBackoff(feed, now) /\ Due(feed, now)

\* A tick that leaves a feed alone while a job for it waits or is being worked on.
TickSkipsPending(cap) ==
  /\ queue' = [f \in FeedIds |->
                 IF /\ feeds[f].exists /\ Enqueues(feeds[f], clock)
                    /\ queue[f] = 0
                    /\ \A w \in Workers : workers[w].pc = "idle" \/ workers[w].feedId # f
                 THEN 1 ELSE queue[f]]
  /\ UNCHANGED <<feeds, items, workers, clock, lastDoc, aux>>

\* One scheduler tick: list the feeds, enqueue a job for each that is due.  The model
\* follows a queue of up to cap waiting jobs per feed.
TickWithin(cap) ==
  /\ \A f \in FeedIds : feeds[f].exists /\ Enqueues(feeds[f], clock) => queue[f] < cap
  /\ queue' = [f \in FeedIds |->
                 IF feeds[f].exists /\ Enqueues(feeds[f], clock) THEN queue[f] + 1 ELSE queue[f]]
  /\ UNCHANGED <<feeds, items, workers, clock, lastDoc, aux>>

\* The tick of the specifications that follow one waiting job per feed.
Tick == TickWithin(MaxQueue)

\* POST /feeds/:id/fetch: 404 without the row, else one job.
ManualFetch(f) ==
  /\ feeds[f].exists
  /\ queue[f] < MaxQueue
  /\ queue' = [queue EXCEPT ![f] = @ + 1]
  /\ UNCHANGED <<feeds, items, workers, clock, lastDoc, aux>>

\* The row a deleted feed leaves in the model: nothing.
AbsentFeed ==
  [exists |-> FALSE, url |-> Null, title |-> Null, lastFetched |-> Null, fetchInterval |-> 30,
   etag |-> Null, lastModified |-> Null, errorCount |-> 0, backoffUntil |-> Null]

\* The row POST /feeds creates.
NewFeed(url, title, fetchInterval) ==
  [exists |-> TRUE, url |-> url, title |-> title, lastFetched |-> Null, fetchInterval |-> fetchInterval,
   etag |-> Null, lastModified |-> Null, errorCount |-> 0, backoffUntil |-> Null]

\* DELETE /feeds/:id: the row goes and, by ON DELETE CASCADE, its items with it.
DeleteFeed(f) ==
  /\ feeds[f].exists
  /\ feeds' = [feeds EXCEPT ![f] = AbsentFeed]
  /\ items' = {r \in items : r.feedId # f}
  /\ lastDoc' = [lastDoc EXCEPT ![f] = NoDoc]
  /\ UNCHANGED <<queue, workers, clock, aux>>

\* The data object of POST /items/dev-create: no guid is given.
DevCreateData(title, url, contentText, publishedAt, now) ==
  [title |-> title, url |-> url, contentHtml |-> Undef, contentText |-> contentText,
   publishedAt |-> Coalesce(publishedAt, Date(now))]

\* POST /items/dev-create outside production.
DevCreate(f, title) ==
  /\ feeds[f].exists
  /\ Cardinality(RowsOfKey(items, f, Null)) < MaxDevItems
  /\ items' = ItemCreate(items, f, Null, DevCreateData(title, Undef, Undef, Undef, clock))
  /\ lastDoc' = [lastDoc EXCEPT ![f] = NoDoc]
  /\ UNCHANGED <<feeds, queue, workers, clock, aux>>

\* The instants at which the model looks at the system (milliseconds).
Instants == {0, 3 * MINUTE, 5 * MINUTE - 1, 5 * MINUTE, 8 * MINUTE, 30 * MINUTE}

\* Time passes.
Advance(t) ==
  /\ t > clock
  /\ clock' = t
  /\ UNCHANGED <<feeds, items, queue, workers, lastDoc, aux>>

(***************************************************************************)
(* Inputs: the documents an upstream may serve, the response headers, the  *)
(* failure statuses, the jitter and the fetch intervals.                   *)
(***************************************************************************)

\* A raw entry with the members most feeds carry; the others are absent.
RawEntry(guid, link, title, content) ==
  [guid |-> guid, id |-> Undef, title |-> title, link |-> link, pubDate |-> Undef,
   published |-> Undef, updated |-> Undef, encoded |-> Undef, content |-> content,
   description |-> Undef]

\* https://h/a, and the same article with a tracking parameter and a fragment.
LinkA == Url(<<"a">>, {}, FALSE, TRUE)
LinkATracked == Url(<<"a">>, {"utm_source"}, TRUE, TRUE)
\* https://h/a/amp/
LinkAAmpSlash == Url(<<"a", "amp", "">>, {}, FALSE, TRUE)
LinkB == Url(<<"b">>, {}, FALSE, TRUE)
\* <link/><link/>: an array of two empty strings.
LinkEmptyPair == Arr(<<Str(""), Str("")>>)

EntryA == RawEntry(Str("g1"), LinkA, Str("A"), Undef)
\* The article of EntryA republished under another id and a tracked link.
EntryADrift == RawEntry(Str("g2"), LinkATracked, Str("A2"), Undef)
EntryB == RawEntry(Str("g2"), LinkB, Str("B"), Undef)
\* An entry without a link, identified by its guid alone.
EntryGuidOnly == RawEntry(Str("g1"), Undef, Str("G"), Undef)
\* An entry without guid and link: the hash fallback.
EntryBare == RawEntry(Undef, Undef, Str("H"), Undef)
EntryEmptyLinks == RawEntry(Str("g3"), LinkEmptyPair, Str("E"), Undef)
EntryAmp == RawEntry(Undef, LinkAAmpSlash, Undef, Undef)
\* <content type="html">: the parser yields an object for the content member.
EntryObjContent == RawEntry(Str("g4"), LinkB, Str("O"), Obj(Str("<p>"), Undef, Undef))

\* An entry whose guid and title are objects without a text-like member.
EntryObjOther == RawEntry(Obj(Undef, Undef, Undef), LinkA, Obj(Undef, Undef, Undef), Undef)

\* A body that is neither RSS nor Atom.
DocNone == Doc("none", Undef, <<>>)
DocAB == Doc("rss", Str("Feed"), <<EntryA, EntryB>>)
\* A document with an entry found by its candidates and one found by its hash key.
DocAH == Doc("rss", Str("Feed"), <<EntryA, EntryBare>>)

\* Entries a document is made of, and the longest document.
Entries ==
  {EntryA, EntryADrift, EntryGuidOnly, EntryBare, EntryEmptyLinks, EntryAmp}
MaxEntries == 2

RECURSIVE SeqsUpTo(_, _)
SeqsUpTo(S, n) ==
  IF n = 0 THEN {<<>>}
  ELSE LET shorter == SeqsUpTo(S, n - 1)
       IN shorter \cup {Append(q, e) : q \in {x \in shorter : Len(x) = n - 1}, e \in S}

\* The documents of the ingestion specification.
IngestDocs == {DocNone} \cup {Doc("rss", Undef, es) : es \in SeqsUpTo(Entries, MaxEntries)}

\* The documents of the full specification.
MainDocs == {DocNone, DocAH}

\* The etag / last-modified headers of a 2xx response.
Validators == {<<Undef, Undef>>, <<Str("e1"), Str("m1")>>}
\* A response without validators.
NoValidators == {<<Undef, Undef>>}

FailStatuses == {500}
Jitters == {0, 29999}
\* fetchInterval values of the Feed rows: INTEGER NOT NULL DEFAULT 30.
Intervals == {3, 30}

\* The store and the workers after registration of one feed with a fetchInterval of
\* ms: f1 is there and was never fetched.
Store(ms) ==
  /\ \E m \in ms :
       feeds = [f \in FeedIds |-> IF f = "f1" THEN NewFeed(LinkA, Str("feed"), m) ELSE AbsentFeed]
  /\ items = {}
  /\ queue = [f \in FeedIds |-> 0]
  /\ workers = [w \in Workers |-> IdleWorker(0, NoResult)]
  /\ clock = 0
  /\ lastDoc = [f \in FeedIds |-> NoDoc]

\* The system after registration of one feed.
Registered(ms) == Store(ms) /\ aux = NoAux

Init == Registered(Intervals)

\* The default interval of POST /feeds.
InitDefault == Registered({30})

(***************************************************************************)
(* The backoff policy on its own: one feed row that fails again and again. *)
(* aux holds the row, the number of consecutive failures, and the delay    *)
(* (before jitter) and the jitter of the latest failure.                   *)
(***************************************************************************)

\* Consecutive failures followed.
MaxFailures == 12

Streak(feed, failures, delay, jitter) ==
  [t |-> "backoff", feed |-> feed, failures |-> failures, delay |-> delay, jitter |-> jitter]

InitBackoff == Store({30}) /\ aux = Streak(NewFeed(LinkA, Str("feed"), 30), 0, 0, 0)

\* performFetch's failure branch at time now with a jitter: prev is the stored count.
FailAgain(now, jitter) ==
  /\ aux.failures < MaxFailures
  /\ aux.feed.lastFetched # Null => now >= aux.feed.lastFetched.v
  /\ LET feed == FailureMeta(aux.feed, aux.feed.errorCount, now, jitter)
     IN aux' = Streak(feed, aux.failures + 1, feed.backoffUntil.v - now - jitter, jitter)
  /\ UNCHANGED <<feeds, items, queue, workers, clock, lastDoc>>

\* performFetch's success write at time now ends the streak.
Succeed(now) ==
  /\ aux.failures > 0
  /\ now >= aux.feed.lastFetched.v
  /\ aux' = Streak(SuccessMeta(aux.feed, now), 0, 0, 0)
  /\ UNCHANGED <<feeds, items, queue, workers, clock, lastDoc>>

NextBackoff ==
  \/ \E now \in Instants, j \in Jitters : FailAgain(now, j)
  \/ \E now \in Instants : Succeed(now)

SpecBackoff == InitBackoff /\ [][NextBackoff]_vars

(***************************************************************************)
(* The URL canonicalizer on its own.  aux holds one input, and after the   *)
(* step the result of canonicalUrl on it and on that result.               *)
(***************************************************************************)

\* Longest pathname, in segments.
MaxSegments == 3

\* Pathnames of segments "a" and "amp", with single and repeated slashes.
Paths == SeqsUpTo({"a", "amp", ""}, MaxSegments) \ {<<>>}

\* URL strings with two tracking parameters and one other, with and without fragment,
\* printed as URL.toString() prints them or not; strings that are no URL; no string.
UrlInputs ==
  {Url(p, q, frag, norm) :
     p \in Paths, q \in SUBSET {"utm_source", "fbclid", "id"}, frag \in BOOLEAN, norm \in BOOLEAN}
  \cup {Str("not a url"), Str(""), Undef}

Canon(stage, input, once, twice) ==
  [t |-> "canon", stage |-> stage, input |-> input, once |-> once, twice |-> twice]

InitCanon == Store({30}) /\ \E u \in UrlInputs : aux = Canon("in", u, Undef, Undef)

\* canonicalUrl is applied to the input and then to its own result.
Canonicalize ==
  /\ aux.stage = "in"
  /\ aux' = Canon("out", aux.input, canonicalUrl(aux.input),
                  canonicalUrl(canonicalUrl(aux.input)))
  /\ UNCHANGED <<feeds, items, queue, workers, clock, lastDoc>>

SpecCanon == InitCanon /\ [][Canonicalize]_vars

\* One step of a fetch worker after it has the response.
Ingest(w) ==
  \/ FindFirst(w)
  \/ UpdateMany(w)
  \/ FindUnique(w)
  \/ Update(w)
  \/ Create(w)
  \/ Meta(w)

\* A 2xx cycle of a worker of ws on a document of docs.
Cycle200(ws, docs, vals) ==
  \/ \E w \in ws, f \in FeedIds : StartJob(w, f)
  \/ \E w \in ws, d \in docs, v \in vals : Http200(w, d, v[1], v[2])
  \/ \E w \in ws : Ingest(w)

\* The other outcomes of the HTTP request.
CycleOther(ws) ==
  \/ \E w \in ws : Http304(w)
  \/ \E w \in ws, st \in FailStatuses, j \in Jitters : HttpError(w, st, j)
  \/ \E w \in ws : HttpThrow(w)

\* The documents of the two-worker specification.
RaceDocs == {DocAB, Doc("rss", Undef, <<EntryADrift, EntryGuidOnly>>)}

\* The documents of the specification of everything that persists items.
ItemDocs == {DocAB, Doc("rss", Undef, <<EntryEmptyLinks>>)}

\* The fetch cycle with all its outcomes, the scheduler and the clock; one worker.
Next ==
  \/ Cycle200({"w1"}, MainDocs, Validators)
  \/ CycleOther({"w1"})
  \/ \E f \in FeedIds : ManualFetch(f)
  \/ Tick
  \/ \E t \in Instants : Advance(t)

Spec == Init /\ [][Next]_vars

\* Ingestion of many documents, one after the other.
NextIngest ==
  \/ Cycle200({"w1"}, IngestDocs, NoValidators)
  \/ \E f \in FeedIds : ManualFetch(f)

SpecIngest == InitDefault /\ [][NextIngest]_vars

\* Fetch jobs of one feed on two workers, their awaits interleaved.
NextRace ==
  \/ Cycle200(Workers, RaceDocs, NoValidators)
  \/ \E f \in FeedIds : ManualFetch(f)

SpecRace == InitDefault /\ [][NextRace]_vars

\* The documents of the crash specification.
CrashDocs ==
  {Doc("rss", Undef, es) :
     es \in SeqsUpTo({EntryA, EntryADrift, EntryGuidOnly, EntryBare}, MaxEntries)}

\* One worker that may die at any await; the queue redelivers its job.
NextCrash ==
  \/ Cycle200({"w1"}, CrashDocs, NoValidators)
  \/ \E f \in FeedIds : ManualFetch(f)
  \/ Crash("w1")

SpecCrash == InitDefault /\ [][NextCrash]_vars

\* The fetch cycle beside DELETE /feeds/:id; the HTTP request itself succeeds.
NextDelete ==
  \/ Cycle200({"w1"}, MainDocs, NoValidators)
  \/ Http304("w1")
  \/ \E st \in FailStatuses, j \in Jitters : HttpError("w1", st, j)
  \/ \E f \in FeedIds : ManualFetch(f)
  \/ \E f \in FeedIds : DeleteFeed(f)

SpecDelete == InitDefault /\ [][NextDelete]_vars

\* 2xx responses with every kind of body: a feed, something that is no feed, and
\* something the parser rejects.
NextBody ==
  \/ Cycle200({"w1"}, MainDocs \cup {DocAB}, Validators)
  \/ ParseThrow("w1")
  \/ \E f \in FeedIds : ManualFetch(f)

SpecBody == InitDefault /\ [][NextBody]_vars

\* Every operation that persists Item rows.
NextItems ==
  \/ Cycle200({"w1"}, ItemDocs, NoValidators)
  \/ \E f \in FeedIds : ManualFetch(f)
  \/ \E f \in FeedIds : DevCreate(f, Str("dev"))

SpecItems == InitDefault /\ [][NextItems]_vars

(***************************************************************************)
(* The scheduler and one worker over a store of many feeds, with faults: a *)
(* tick may raise partway and the store may refuse a write of an item.     *)
(* aux holds the number of Feed rows besides those of FeedIds, whether the *)
(* scheduling process is running, the due feeds the latest tick left       *)
(* without a job, those among the feeds the tick before had left that it   *)
(* gave a job, and whether a write has been refused.                       *)
(***************************************************************************)

\* Atom documents whose entries carry objects where text is expected.
ContentDocs ==
  {Doc("atom", Undef, es) :
     es \in SeqsUpTo({EntryB, EntryBare, EntryObjContent, EntryObjOther}, MaxEntries) \ {<<>>}}

\* Ingestion of documents with object-valued members.
SpecContent ==
  InitDefault /\ [][\/ Cycle200({"w1"}, ContentDocs, NoValidators)
                    \/ \E f \in FeedIds : ManualFetch(f)]_vars

\* An entry with the given pubDate, published and updated members.
Dated(e, p, q, u) == [e EXCEPT !.pubDate = p, !.published = q, !.updated = u]

\* One-entry documents of an article and of an entry without guid and link, under every
\* combination of absent, unparsable and parsable date members.
DatedDocs ==
  {Doc("rss", Undef, <<Dated(e, p, q, u)>>) :
     e \in {EntryA, EntryBare},
     p \in {Undef, Str("soon"), DateStr(1)},
     q \in {Undef, Str("soon"), DateStr(2)},
     u \in {Undef, DateStr(3)}}

\* Ingestion of dated entries, the clock running.
SpecDates ==
  InitDefault /\ [][\/ Cycle200({"w1"}, DatedDocs, NoValidators)
                    \/ \E f \in FeedIds : ManualFetch(f)
                    \/ Advance(5 * MINUTE)]_vars

\* Cycles that may raise at the request, in the parser or at the write of an entry with
\* object content, beside cycles that end; every job comes from a tick.
SpecRaise ==
  InitDefault /\ [][\/ Cycle200({"w1"}, {DocAH, Doc("atom", Str("Feed"), <<EntryA, EntryObjContent>>)},
                                NoValidators)
                    \/ HttpThrow("w1")
                    \/ ParseThrow("w1")
                    \/ \E st \in FailStatuses, j \in Jitters : HttpError("w1", st, j)
                    \/ Tick
                    \/ \E t \in Instants : Advance(t)]_vars

\* Jobs that may wait for one feed where the scheduler runs ahead of the worker.
MaxPending == 3

\* The scheduler beside a worker that may be slower than the ticks.
SpecPending ==
  InitDefault /\ [][\/ TickWithin(MaxPending)
                    \/ Cycle200({"w1"}, {DocAH}, NoValidators)
                    \/ Advance(30 * MINUTE)]_vars

\* prisma.feed.findMany({take: 1000}): the most rows one listing returns.
take == 1000

Sched(others, alive, missed, retried, refused) ==
  [t |-> "sched", others |-> others, alive |-> alive, missed |-> missed,
   retried |-> retried, refused |-> refused]

\* Two registered feeds, never fetched, in a Feed table of two rows or of take + 1.
InitFeeds ==
  /\ feeds = [f \in FeedIds |-> NewFeed(IF f = "f1" THEN LinkA ELSE LinkB, Str("feed"), 30)]
  /\ items = {}
  /\ queue = [f \in FeedIds |-> 0]
  /\ workers = [w \in Workers |-> IdleWorker(0, NoResult)]
  /\ clock = 0
  /\ lastDoc = [f \in FeedIds |-> NoDoc]
  /\ \E n \in {0, take - 1} : aux = Sched(n, TRUE, {}, {}, FALSE)

\* The rows of FeedIds one listing may hold: findMany has no orderBy, so of a table
\* of more than take rows it returns any take.
Listings ==
  LET rows == {f \in FeedIds : feeds[f].exists}
      total == Cardinality(rows) + aux.others
      least == (IF total > take THEN take ELSE total) - aux.others
  IN {l \in SUBSET rows : Cardinality(l) >= least}

\* The setInterval callback on a listing, its loop getting through the rows of reached;
\* alive tells whether the scheduling process survives the callback.
Scan(listed, reached, alive) ==
  /\ aux.alive
  /\ listed \in Listings
  /\ reached \subseteq listed
  /\ LET due == {f \in FeedIds : feeds[f].exists /\ Enqueues(feeds[f], clock)}
     IN /\ \A f \in due \cap reached : queue[f] < MaxQueue
        /\ queue' = [f \in FeedIds |-> IF f \in due \cap reached THEN queue[f] + 1 ELSE queue[f]]
        /\ aux' = [aux EXCEPT !.alive = alive, !.missed = due \ reached,
                              !.retried = aux.missed \cap due \cap reached]
  /\ UNCHANGED <<feeds, items, workers, clock, lastDoc>>

\* A tick that runs to its end.
TickOn(listed) == Scan(listed, listed, TRUE)

\* A tick that raises with nothing to catch it: an unhandled rejection ends the process.
TickRaisesUncaught(listed, reached) ==
  /\ IF reached = {} THEN TRUE
     ELSE {f \in listed \ reached : Enqueues(feeds[f], clock)} # {}
  /\ Scan(listed, reached, FALSE)

\* A tick that raises partway, in findMany (no row is reached) or in the enqueueFetch
\* of a due row; the catch logs "scheduler tick error" and the timer goes on.
TickRaises(listed, reached) ==
  /\ IF reached = {} THEN TRUE
     ELSE {f \in listed \ reached : Enqueues(feeds[f], clock)} # {}
  /\ Scan(listed, reached, TRUE)

\* The store refuses the write a worker awaits: updateMany's rejection is swallowed by
\* .catch(() => {}) and the entry counted; update's and create's reject performFetch.
WriteFails(w) ==
  /\ workers[w].pc \in {"updateMany", "update", "create"}
  /\ ~aux.refused
  /\ aux' = [aux EXCEPT !.refused = TRUE]
  /\ IF workers[w].pc = "updateMany"
     THEN /\ workers' = [workers EXCEPT ![w] = Continue(w, @.inserted, @.skipped + 1)]
          /\ UNCHANGED lastDoc
     ELSE /\ workers' = Finish(w, Raised(IF workers[w].pc = "update"
                                         THEN "item.update" ELSE "item.create"))
          /\ lastDoc' = [lastDoc EXCEPT ![Feed(w)] = NoDoc]
  /\ UNCHANGED <<feeds, items, queue, clock>>

\* What the worker does in the specification of the faults.
WorkFeeds ==
  \/ Cycle200({"w1"}, {DocAH}, NoValidators)
  \/ WriteFails("w1")

NextFeeds ==
  \/ WorkFeeds
  \/ \E l \in SUBSET FeedIds : TickOn(l)
  \/ \E l \in SUBSET FeedIds, r \in SUBSET FeedIds : TickRaises(l, r)
  \/ Advance(30 * MINUTE)

SpecFeeds == InitFeeds /\ [][NextFeeds]_vars

\* The interval timer fires for ever and a failure of the store is transient: a tick
\* that can run to its end from some moment on does so.  The worker goes on with its job
\* (weak fairness of its steps, written out: it is idle with no job waiting again and
\* again, or it steps again and again).
FairFeeds ==
  /\ SpecFeeds
  /\ WF_vars(\E l \in SUBSET FeedIds : TickOn(l))
  /\ \/ []<>(workers["w1"].pc = "idle" /\ \A f \in FeedIds : queue[f] = 0)
     \/ []<><<workers'["w1"] # workers["w1"]>>_vars

(***************************************************************************)
(* POST /feeds from two clients at once, beside DELETE /feeds/:id.  aux    *)
(* holds each client's request: where its handler is (idle, or between its *)
(* findUnique and its create), the body it sent, and the status and the    *)
(* row id of the latest response.                                          *)
(***************************************************************************)

\* An empty Feed table and no request made.
InitPost ==
  /\ feeds = [f \in FeedIds |-> AbsentFeed]
  /\ items = {}
  /\ queue = [f \in FeedIds |-> 0]
  /\ workers = [w \in Workers |-> IdleWorker(0, NoResult)]
  /\ clock = 0
  /\ lastDoc = [f \in FeedIds |-> NoDoc]
  /\ aux = [t |-> "post",
            reqs |-> [c \in {"c1", "c2"} |->
                        [pc |-> "idle", url |-> Undef, title |-> Undef, status |-> 0,
                         id |-> ""]]]

\* The Feed table without the unique index on url.
NoFeedUrlKey(url) == FALSE

\* The unique index Feed_url_key refuses an INSERT of a url that a row carries.
FeedUrlKey(url) == \E f \in FeedIds : feeds[f].exists /\ feeds[f].url = url

\* POST /feeds up to its first await: 400 on a body the schema rejects (a url that is
\* no URL), else findUnique({where: {url}}) and 200 with the row when there is one.
PostFeed(c, url, title) ==
  /\ aux.reqs[c].pc = "idle"
  /\ LET found == {f \in FeedIds : feeds[f].exists /\ feeds[f].url = url}
     IN aux' = [aux EXCEPT !.reqs[c] =
                  IF url.t # "url"
                  THEN [pc |-> "idle", url |-> url, title |-> title, status |-> 400, id |-> ""]
                  ELSE IF found # {}
                  THEN [pc |-> "idle", url |-> url, title |-> title, status |-> 200,
                        id |-> CHOOSE f \in found : TRUE]
                  ELSE [pc |-> "create", url |-> url, title |-> title, status |-> 0,
                        id |-> ""]]
  /\ UNCHANGED <<feeds, items, queue, workers, clock, lastDoc>>

\* await prisma.feed.create: 201 with the new row, or the catch's 500 when the store
\* refuses the INSERT.
PostFeedCreate(c, f) ==
  /\ aux.reqs[c].pc = "create"
  /\ IF FeedUrlKey(aux.reqs[c].url)
     THEN /\ aux' = [aux EXCEPT !.reqs[c].pc = "idle", !.reqs[c].status = 500]
          /\ UNCHANGED feeds
     ELSE /\ ~feeds[f].exists
          /\ feeds' = [feeds EXCEPT ![f] =
                         NewFeed(aux.reqs[c].url, Coalesce(aux.reqs[c].title, aux.reqs[c].url), 30)]
          /\ aux' = [aux EXCEPT !.reqs[c].pc = "idle", !.reqs[c].status = 201,
                                !.reqs[c].id = f]
  /\ UNCHANGED <<items, queue, workers, clock, lastDoc>>

SpecPost ==
  /\ InitPost
  /\ [][\/ \E c \in {"c1", "c2"}, u \in {LinkA, LinkB, Str("not a url")},
              t \in {Undef, Str("title")} : PostFeed(c, u, t)
        \/ \E c \in {"c1", "c2"}, f \in FeedIds : PostFeedCreate(c, f)
        \/ \E f \in FeedIds : DeleteFeed(f)]_vars

(***************************************************************************)
(* The frontend's offline queue of writes (lib/api.ts).  A job is named by *)
(* its method; each is requested once.  aux holds                          *)
(*   stored   the array under localStorage["readerly.offlineQueue.v1"]     *)
(*   flushes  each running flushOfflineQueue: where it is, the array q it  *)
(*            read, the index of the job it awaits and its remaining array *)
(*   last     the latest apiPost / apiPatch / apiDelete call and how its   *)
(*            fetch ended                                                  *)
(*   queued   history: the jobs enqueue() has been called with             *)
(*   settled  history: the jobs a flush sent and the server answered with  *)
(*            a success status or 401                                      *)
(***************************************************************************)

\* An empty queue, no flush running: "start" is the flush of the page's useEffect,
\* "online" the one of the window's online listener.
InitOffline ==
  /\ feeds = [f \in FeedIds |-> AbsentFeed]
  /\ items = {}
  /\ queue = [f \in FeedIds |-> 0]
  /\ workers = [w \in Workers |-> IdleWorker(0, NoResult)]
  /\ clock = 0
  /\ lastDoc = [f \in FeedIds |-> NoDoc]
  /\ aux = [t |-> "offline", stored |-> <<>>,
            flushes |-> [fl \in {"start", "online"} |->
                           [pc |-> "idle", q |-> <<>>, i |-> 0, remaining |-> <<>>]],
            last |-> [job |-> "", outcome |-> ""], queued |-> {}, settled |-> {}]

\* apiPost / apiPatch / apiDelete once its fetch has settled: with a success status
\* the call returns; 401 throws AuthError, which the catch rethrows; any other error
\* status throws inside the try and, like a rejected fetch, ends in enqueue().
ApiWrite(job, outcome) ==
  /\ aux.t = "offline"
  /\ job \notin {aux.last.job} \cup aux.queued \cup aux.settled
  /\ aux' = IF outcome \in {"ok", "401"}
            THEN [aux EXCEPT !.last = [job |-> job, outcome |-> outcome]]
            ELSE [aux EXCEPT !.last = [job |-> job, outcome |-> outcome],
                             !.stored = Append(@, job), !.queued = @ \cup {job}]
  /\ UNCHANGED <<feeds, items, queue, workers, clock, lastDoc>>

\* flushOfflineQueue up to its first await: readQueue, return on an empty array.
FlushRead(fl) ==
  /\ aux.t = "offline"
  /\ aux.flushes[fl].pc = "idle"
  /\ aux.stored # <<>>
  /\ aux' = [aux EXCEPT !.flushes[fl] =
               [pc |-> "send", q |-> aux.stored, i |-> 1, remaining |-> <<>>]]
  /\ UNCHANGED <<feeds, items, queue, workers, clock, lastDoc>>

\* The fetch of job q[i] settles: 401 drops the job, any other error status or a
\* rejected fetch keeps it in remaining; after the last job writeQueue(remaining).
FlushSend(fl, outcome) ==
  /\ aux.t = "offline"
  /\ aux.flushes[fl].pc = "send"
  /\ LET me == aux.flushes[fl]
         job == me.q[me.i]
         remaining == IF outcome \in {"ok", "401"} THEN me.remaining
                      ELSE Append(me.remaining, job)
         settled == IF outcome \in {"ok", "401"} THEN aux.settled \cup {job}
                    ELSE aux.settled
     IN aux' = IF me.i < Len(me.q)
               THEN [aux EXCEPT !.flushes[fl].i = @ + 1,
                                !.flushes[fl].remaining = remaining, !.settled = settled]
               ELSE [aux EXCEPT !.flushes[fl] =
                                  [pc |-> "idle", q |-> <<>>, i |-> 0, remaining |-> <<>>],
                                !.stored = remaining, !.settled = settled]
  /\ UNCHANGED <<feeds, items, queue, workers, clock, lastDoc>>

SpecOffline ==
  /\ InitOffline
  /\ [][\/ \E j \in {"POST", "PATCH", "DELETE"}, o \in {"ok", "401", "error", "network"} :
              ApiWrite(j, o)
        \/ \E fl \in {"start", "online"} : FlushRead(fl)
        \/ \E fl \in {"start", "online"}, o \in {"ok", "401", "error", "network"} :
              FlushSend(fl, o)]_vars

(***************************************************************************)
(* PATCH and DELETE of folders and saved searches by two authenticated     *)
(* users.  aux holds the rows of the two tables (kind, owner, name) and    *)
(* each user's request: where its handler is (idle, or between its         *)
(* findFirst and its write), what it asked and the status it was answered. *)
(***************************************************************************)

\* Two folders of u1 and two saved searches of u2; no request made.
InitOwned ==
  /\ feeds = [f \in FeedIds |-> AbsentFeed]
  /\ items = {}
  /\ queue = [f \in FeedIds |-> 0]
  /\ workers = [w \in Workers |-> IdleWorker(0, NoResult)]
  /\ clock = 0
  /\ lastDoc = [f \in FeedIds |-> NoDoc]
  /\ aux = [t |-> "owned",
            rows |-> [id \in {"r1", "r2", "r3", "r4"} |->
                        [exists |-> TRUE,
                         kind |-> IF id \in {"r1", "r2"} THEN "folder" ELSE "search",
                         userId |-> IF id \in {"r1", "r2"} THEN "u1" ELSE "u2",
                         name |-> IF id \in {"r1", "r3"} THEN Str("a") ELSE Str("b")]],
            reqs |-> [u \in {"u1", "u2"} |->
                        [pc |-> "idle", op |-> "", id |-> "", name |-> Undef, status |-> 0]]]

\* A lookup by id alone.
FindAnyones(userId, id) == aux.rows[id].exists

\* findFirst({where: {id, userId}}): the row, when it is the user's.
FindOwn(userId, id) == aux.rows[id].exists /\ aux.rows[id].userId = userId

\* PATCH or DELETE /:id up to its first await: 400 on a body the schema rejects (a
\* folder needs a name, a saved search may leave it out), then the ownership
\* lookup and its 404.
OwnedRequest(u, op, id, name) ==
  /\ aux.reqs[u].pc = "idle"
  /\ aux' = [aux EXCEPT !.reqs[u] =
               IF op = "patch" /\ (name = Str("") \/ (name = Undef /\ aux.rows[id].kind = "folder"))
               THEN [pc |-> "idle", op |-> op, id |-> id, name |-> name, status |-> 400]
               ELSE IF ~FindOwn(u, id)
               THEN [pc |-> "idle", op |-> op, id |-> id, name |-> name, status |-> 404]
               ELSE [pc |-> "write", op |-> op, id |-> id, name |-> name, status |-> 0]]
  /\ UNCHANGED <<feeds, items, queue, workers, clock, lastDoc>>

\* The write by id that follows: update answers 200, or 409 when the unique index on
\* (userId, name) refuses the name, or 500 when the row is gone; delete answers 204,
\* or 500 when the row is gone.
OwnedWrite(u) ==
  /\ aux.reqs[u].pc = "write"
  /\ LET r == aux.reqs[u]
         row == aux.rows[r.id]
         taken == \E o \in DOMAIN aux.rows \ {r.id} :
                    /\ aux.rows[o].exists /\ aux.rows[o].kind = row.kind
                    /\ aux.rows[o].userId = row.userId /\ aux.rows[o].name = r.name
     IN IF ~row.exists
        THEN aux' = [aux EXCEPT !.reqs[u].pc = "idle", !.reqs[u].status = 500]
        ELSE IF r.op = "delete"
        THEN aux' = [aux EXCEPT !.reqs[u].pc = "idle", !.reqs[u].status = 204,
                                !.rows[r.id].exists = FALSE]
        ELSE IF taken
        THEN aux' = [aux EXCEPT !.reqs[u].pc = "idle", !.reqs[u].status = 409]
        ELSE aux' = [aux EXCEPT !.reqs[u].pc = "idle", !.reqs[u].status = 200,
                                !.rows[r.id].name = IF r.name = Undef THEN @ ELSE r.name]
  /\ UNCHANGED <<feeds, items, queue, workers, clock, lastDoc>>

SpecOwned ==
  /\ InitOwned
  /\ [][\/ \E u \in {"u1", "u2"}, op \in {"patch", "delete"}, id \in {"r1", "r2", "r3", "r4"},
             n \in {Str("a"), Str("b"), Str(""), Undef} : OwnedRequest(u, op, id, n)
        \/ \E u \in {"u1", "u2"} : OwnedWrite(u)]_vars

(***************************************************************************)
(* Properties.                                                             *)
(***************************************************************************)

\* The (feedId, guid) pairs of the rows of a store.
KeysOf(store) == {<<r.feedId, r.guid>> : r \in store}

\* Worker w takes a step.
Steps(w) == workers'[w] # workers[w]

\* Worker w is inside the entry loop (or just past it) of a 2xx cycle.
InCycle200(w) == workers[w].pc \notin {"idle", "fetch"}

\* Worker w is re-ingesting the document its feed's previous cycle ingested.
Reingesting(w) == InCycle200(w) /\ lastDoc[Feed(w)] = workers[w].doc

\* C1: a 2xx cycle that ingests the document the feed's previous cycle ingested to the
\* end inserts no row and leaves the set of (feedId, guid) keys as it was at every
\* step, does not raise, and reports inserted = 0 and skipped = the number of entries.
C1_ReingestIdempotent ==
  [][\A w \in Workers :
       Reingesting(w) /\ Steps(w) =>
         /\ KeysOf(items') = KeysOf(items)
         /\ Cardinality(items') = Cardinality(items)
         /\ workers'[w].result.kind # "raised"
         /\ workers'[w].result.kind = "returned" =>
              workers'[w].result = Returned(200, 0, Len(workers[w].doc.entries))]_vars

\* C1 witness: the second pass over a two-entry document has skipped both entries and
\* is about to report.
C1_SecondPassDone ==
  \E w \in Workers :
    /\ workers[w].pc = "meta"
    /\ lastDoc[Feed(w)] = workers[w].doc
    /\ Len(workers[w].doc.entries) = 2
    /\ workers[w].inserted = 0
    /\ workers[w].skipped = 2

\* C2: no two Item rows have the same (feedId, guid), whatever the interleaving of the
\* fetch jobs' awaits.
C2_UniqueFeedGuid ==
  \A r1 \in items, r2 \in items :
    r1.feedId = r2.feedId /\ r1.guid = r2.guid => r1 = r2

\* C2 witness: two workers raced on one key; the loser's INSERT was refused by the
\* unique index and the row is there once.
C2_RaceLost ==
  \E w \in Workers :
    /\ workers[w].result = Raised("item.create")
    /\ \E o \in Workers \ {w} : workers[o].result.kind = "returned"
    /\ items # {}

\* C3: every Item row has a populated guid: not NULL and not the empty string.
C3_GuidPopulated == \A r \in items : r.guid # Null /\ r.guid # Str("")

\* The stored guids an entry's canonicalized link can equal.
LinkGuids(n) == {g \in {n.url, n.urlCanon} : Truthy(g)}

\* The entry's canonicalized link is the stored guid of a row of the worker's feed.
LinkRowExists(w) ==
  \E r \in items : r.feedId = Feed(w) /\ r.guid \in LinkGuids(Entry(w))

\* C4 as claimed: when the entry's canonicalized link is the guid of a stored row, the
\* candidate search settles on that row.
C4_UpdatesLinkRow ==
  [][\A w \in Workers :
       workers[w].pc = "findFirst" /\ Steps(w) /\ LinkRowExists(w) =>
         /\ workers'[w].pc = "updateMany"
         /\ workers'[w].existing \in LinkGuids(Entry(w))]_vars

\* C4 amended: when the entry's canonicalized link is the guid of a stored row, the
\* candidate search settles on a stored row of the feed whose guid is one of the
\* entry's candidates (the link's row, or the row of the raw guid when that is
\* another one); the update that follows inserts nothing, changes no other row, gives
\* the chosen row the entry's url and title, and counts the entry as skipped.
C4_UpdatesCandidateRow ==
  [][\A w \in Workers :
       /\ workers[w].pc = "findFirst" /\ Steps(w) /\ LinkRowExists(w) =>
            /\ workers'[w].pc = "updateMany"
            /\ workers'[w].existing \in Entry(w).candidates
            /\ RowsOfKey(items, Feed(w), workers'[w].existing) # {}
            /\ items' = items
       /\ workers[w].pc = "updateMany" /\ Steps(w) =>
            /\ KeysOf(items') = KeysOf(items)
            /\ Cardinality(items') = Cardinality(items)
            /\ \A r \in items :
                 r.feedId # Feed(w) \/ r.guid # workers[w].existing => r \in items'
            /\ \A r \in RowsOfKey(items', Feed(w), workers[w].existing) :
                 /\ Entry(w).urlCanon # Undef => r.url = Entry(w).urlCanon
                 /\ Entry(w).title # Undef => r.title = Entry(w).title
            /\ workers'[w].inserted = workers[w].inserted
            /\ workers'[w].skipped = workers[w].skipped + 1]_vars

\* C4 witness: the entry with raw id g2 and the tracked link of article A was matched
\* to the row stored under the canonical link: it was skipped, the row carries its
\* title, and no row is stored under g2.
C4_DriftMatched ==
  \E w \in Workers :
    /\ workers[w].pc = "meta"
    /\ workers[w].doc.entries = <<EntryADrift>>
    /\ workers[w].skipped = 1
    /\ workers[w].inserted = 0
    /\ \E r \in items : r.guid = LinkA /\ r.title = Str("A2")
    /\ \A r \in items : r.guid # Str("g2")

\* Worker w's performFetch returns a result in this step.
Returns(w) ==
  /\ workers[w].pc # "idle"
  /\ workers'[w].pc = "idle"
  /\ workers'[w].result.kind = "returned"

\* C5: a cycle that returns status 200 or 304 leaves the feed with errorCount 0 and
\* backoffUntil null.
C5_SuccessResets ==
  [][\A w \in Workers :
       Returns(w) /\ workers'[w].result.status \in {200, 304} =>
         /\ feeds'[Feed(w)].errorCount = 0
         /\ feeds'[Feed(w)].backoffUntil = Null]_vars

\* C5 witness: a cycle that had loaded the feed with failures on record returned 200
\* or 304, and the feed is clean.
C5_RecoveredFromFailures ==
  \E w \in Workers :
    /\ workers[w].result.kind = "returned"
    /\ workers[w].result.status \in {200, 304}
    /\ workers[w].prev > 0
    /\ feeds["f1"].errorCount = 0
    /\ feeds["f1"].backoffUntil = Null

\* C6: a 304 answer ends the cycle at once with {status: 304, inserted: 0, skipped: 0}:
\* the entry loop is not entered, no Item row changes, and of the Feed row only
\* lastFetched (now), errorCount (0) and backoffUntil (null) are written.
C6_NotModifiedShortCircuit ==
  [][\A w \in Workers :
       Returns(w) /\ workers'[w].result.status = 304 =>
         /\ workers[w].pc = "fetch"
         /\ workers'[w].result = Returned(304, 0, 0)
         /\ items' = items
         /\ feeds' = [feeds EXCEPT ![Feed(w)] =
                        [@ EXCEPT !.lastFetched = Date(clock), !.errorCount = 0,
                                  !.backoffUntil = Null]]]_vars

\* C6 witness: a 304 was returned for a feed that has a stored ETag and stored items.
C6_NotModifiedSeen ==
  \E w \in Workers :
    /\ workers[w].result = Returned(304, 0, 0)
    /\ feeds["f1"].etag = Str("e1")
    /\ items # {}

\* C7 as claimed: a non-2xx, non-304 answer increments errorCount.
C7_FailureIncrements ==
  [][\A w \in Workers, st \in FailStatuses, j \in Jitters :
       HttpError(w, st, j) => feeds'[Feed(w)].errorCount = feeds[Feed(w)].errorCount + 1]_vars

\* C7 amended: on a non-2xx, non-304 answer performFetch does not raise; it sets
\* errorCount to the loaded count plus one, but never above 10, sets backoffUntil to a
\* time after now, stamps lastFetched, leaves every Item row alone and returns the
\* status with inserted = 0 and skipped = 0.
C7_FailureBacksOff ==
  [][\A w \in Workers, st \in FailStatuses, j \in Jitters :
       HttpError(w, st, j) =>
         /\ workers'[w].result = Returned(st, 0, 0)
         /\ feeds'[Feed(w)].errorCount =
              (IF workers[w].prev + 1 > 10 THEN 10 ELSE workers[w].prev + 1)
         /\ feeds'[Feed(w)].backoffUntil # Null
         /\ feeds'[Feed(w)].backoffUntil.v > clock
         /\ feeds'[Feed(w)].lastFetched = Date(clock)
         /\ items' = items]_vars

\* C7 witness: a failure was returned by a cycle that had loaded errorCount 10, and
\* the count is still 10.
C7_FailedAtCeiling ==
  \E w \in Workers :
    /\ workers[w].result = Returned(500, 0, 0)
    /\ workers[w].prev = 10
    /\ feeds["f1"].errorCount = 10

\* C8: when the HTTP request fails without a response, performFetch does not raise,
\* increments errorCount and sets backoffUntil.
C8_TransportFailureBacksOff ==
  [][\A w \in Workers :
       HttpThrow(w) =>
         /\ workers'[w].result.kind = "returned"
         /\ feeds'[Feed(w)].errorCount = NextCount(feeds[Feed(w)].errorCount)
         /\ feeds'[Feed(w)].backoffUntil # Null]_vars

\* C9: a tick enqueues no job for a feed whose backoffUntil is later than now.
C9_BackoffRespected ==
  [][Tick =>
       \A f \in FeedIds :
         feeds[f].backoffUntil # Null /\ feeds[f].backoffUntil.v > clock =>
           queue'[f] = queue[f]]_vars

\* C9 witness: a feed that is overdue and still in its backoff window, with no job
\* waiting: a tick here enqueues nothing.
C9_OverdueInBackoff ==
  \E f \in FeedIds :
    /\ feeds[f].exists
    /\ feeds[f].backoffUntil # Null
    /\ feeds[f].backoffUntil.v > clock
    /\ feeds[f].lastFetched # Null
    /\ Due(feeds[f], clock)
    /\ queue[f] = 0

\* C10: a tick enqueues a job for a feed that is not in backoff exactly when the feed
\* was never fetched or max(5, fetchInterval) minutes have passed since lastFetched:
\* that is the tick's decision in every state, and what a tick taken does to the queue.
C10_DueIffIntervalElapsed ==
  [][\A f \in FeedIds :
       feeds[f].exists
       /\ ~(feeds[f].backoffUntil # Null /\ feeds[f].backoffUntil.v > clock) =>
         LET floored == IF feeds[f].fetchInterval < 5 THEN 5 ELSE feeds[f].fetchInterval
             due == \/ feeds[f].lastFetched = Null
                    \/ clock - feeds[f].lastFetched.v >= floored * MINUTE
         IN /\ Enqueues(feeds[f], clock) <=> due
            /\ Tick => ((queue'[f] = queue[f] + 1) <=> due)]_vars

\* C10 witness: a feed whose fetchInterval of 3 minutes has passed but not yet 5, out
\* of backoff, with no job waiting: a tick here enqueues nothing.
C10_BelowFloorNotDue ==
  \E f \in FeedIds :
    /\ feeds[f].exists
    /\ feeds[f].fetchInterval = 3
    /\ feeds[f].backoffUntil = Null
    /\ feeds[f].lastFetched # Null
    /\ clock - feeds[f].lastFetched.v >= 3 * MINUTE
    /\ clock - feeds[f].lastFetched.v < 5 * MINUTE
    /\ queue[f] = 0

\* A failure follows in the backoff specification.
Fails == aux'.failures = aux.failures + 1

\* 6 hours + 30 seconds
DelayCeiling == 6 * 60 * MINUTE + 30000

\* C11: from one consecutive failure to the next the delay before jitter does not
\* decrease, from the tenth failure on it stays the same, and backoffUntil is never
\* more than 6 hours + 30 seconds after the failure.
C11_BackoffMonotoneCapped ==
  [][Fails =>
       /\ aux.failures >= 1 => aux'.delay >= aux.delay
       /\ aux.failures >= 10 => aux'.delay = aux.delay
       /\ aux'.feed.backoffUntil.v - aux'.feed.lastFetched.v <= DelayCeiling
       /\ aux'.feed.backoffUntil.v - aux'.feed.lastFetched.v = aux'.delay + aux'.jitter]_vars

\* C11 witness: the twelfth consecutive failure, at the six-hour delay with the largest
\* jitter.
C11_TwelveFailures ==
  /\ aux.t = "backoff"
  /\ aux.failures = 12
  /\ aux.delay = 6 * 60 * MINUTE
  /\ aux.jitter = 29999

\* C12: the delay before jitter is one minute at the first consecutive failure and
\* twice the previous delay, up to six hours, at each further one.
C12_StartsAtOneMinuteAndDoubles ==
  [][Fails =>
       /\ aux.failures = 0 => aux'.delay = MINUTE
       /\ aux.failures >= 1 =>
            aux'.delay = (IF 2 * aux.delay < 6 * 60 * MINUTE THEN 2 * aux.delay
                          ELSE 6 * 60 * MINUTE)]_vars

\* Worker w runs the document of the job a crash interrupted, for the same feed.
Redelivered(w) ==
  /\ InCycle200(w)
  /\ aux.t = "crash"
  /\ aux.feedId = Feed(w)
  /\ aux.doc = workers[w].doc

\* C13: when a run that a crash interrupted (at any await, after any number of Item
\* writes) is delivered again with the same document, the second run does not raise,
\* never stores two rows under one (feedId, guid), and ends with exactly the keys the
\* interrupted run would have left had it gone on.
C13_RedeliveryIdempotent ==
  [][\A w \in Workers :
       Redelivered(w) /\ Steps(w) =>
         /\ workers'[w].result.kind # "raised"
         /\ \A r1 \in items', r2 \in items' :
              r1.feedId = r2.feedId /\ r1.guid = r2.guid => r1 = r2
         /\ workers'[w].result.kind = "returned" => KeysOf(items') = aux.expect]_vars

\* C13 witness: a run was interrupted after its first entry and before its second had
\* written; the redelivered run has gone through the document, the first entry skipped
\* and the second inserted.
C13_RedeliveredRunDone ==
  \E w \in Workers :
    /\ Redelivered(w)
    /\ aux.at = 2
    /\ workers[w].pc = "meta"
    /\ workers[w].skipped = 1
    /\ workers[w].inserted = 1
    /\ KeysOf(items) = aux.expect

\* C14: with two workers on one feed, their steps interleaved at will, no run raises.
C14_RaceCompletes == \A w \in Workers : workers[w].result.kind # "raised"

\* C15: with the Feed row deleted at any moment of a fetch cycle whose HTTP request
\* succeeds, performFetch does not raise: neither its writes of the Feed row nor its
\* writes of Item rows reject.
C15_DeletionSwallowed ==
  \A w \in Workers :
    workers[w].result \notin {Raised("feed.update"), Raised("item.create"), Raised("item.update")}

\* C16: performFetch for a feed without a row returns undefined at once: it does not
\* go on to the HTTP request and no Feed or Item row changes.
C16_MissingFeedReturns ==
  [][\A w \in Workers, f \in FeedIds :
       StartJob(w, f) /\ ~feeds[f].exists =>
         /\ workers'[w].pc = "idle"
         /\ workers'[w].result = Void
         /\ feeds' = feeds
         /\ items' = items]_vars

\* C16 witness: a job that was waiting when its feed was deleted has been taken and
\* has returned undefined.
C16_ReturnedUndefined ==
  \E w \in Workers : workers[w].result = Void /\ ~feeds["f1"].exists /\ items = {}

\* C17: a 2xx response whose body is no RSS or Atom document, whether the parser
\* returns an object without rss/feed root or rejects the body, raises nothing and
\* changes no Item row.
C17_UnparsableBodyTolerated ==
  [][\A w \in Workers :
       ParseThrow(w) \/ Http200(w, DocNone, Undef, Undef) =>
         /\ workers'[w].result.kind # "raised"
         /\ items' = items]_vars

\* The two entries of a document are distinct: they share no identity.
TwoDistinct(feedId, doc) ==
  /\ Len(doc.entries) = 2
  /\ LET a == Normalize(feedId, doc.entries[1])
         b == Normalize(feedId, doc.entries[2])
     IN (a.candidates \cup {a.effectiveGuid}) \cap (b.candidates \cup {b.effectiveGuid}) = {}

\* C18: a tick's decision for a never-fetched feed with fetchInterval 30 and no items
\* is to enqueue it, and a tick taken then adds its job; the
\* first 200 cycle of a never-fetched feed on a document of two distinct items returns
\* inserted = 2 and leaves two rows; a later cycle on the same document returns
\* inserted = 0, skipped = 2 and leaves exactly two rows.
C18_FirstFetchThenRepeat ==
  [][/\ \A f \in FeedIds :
          (feeds[f].exists /\ feeds[f].lastFetched = Null
           /\ feeds[f].fetchInterval = 30 /\ items = {}) =>
            /\ Enqueues(feeds[f], clock)
            /\ Tick => queue'[f] = queue[f] + 1
     /\ \A w \in Workers :
          workers[w].pc = "meta" /\ Steps(w) /\ TwoDistinct(Feed(w), workers[w].doc) =>
            /\ feeds[Feed(w)].lastFetched = Null =>
                 workers'[w].result = Returned(200, 2, 0) /\ Cardinality(items') = 2
            /\ lastDoc[Feed(w)] = workers[w].doc =>
                 workers'[w].result = Returned(200, 0, 2) /\ Cardinality(items') = 2]_vars

\* C18 witness: the feed with fetchInterval 30 holds two rows and the repeat cycle on
\* the two-item document has returned inserted = 0, skipped = 2.
C18_RepeatReturned ==
  \E w \in Workers :
    /\ workers[w].result = Returned(200, 0, 2)
    /\ feeds["f1"].fetchInterval = 30
    /\ lastDoc["f1"] = DocAH
    /\ Cardinality(items) = 2

\* canonicalUrl has been applied to the input.
Canonicalized == aux.t = "canon" /\ aux.stage = "out"

\* C19: canonicalUrl applied to its own result returns that result.
C19_CanonIdempotent == Canonicalized => aux.twice = aux.once

\* The tracking parameters of the allow-list.
Tracking ==
  {"utm_source", "utm_medium", "utm_campaign", "utm_term", "utm_content",
   "gclid", "fbclid", "spm", "igshid", "mc_eid"}

\* What the result for a parsable URL is like: no fragment, no tracking parameter,
\* every other parameter kept (so no query string when none remains).
CanonShape(input, out) ==
  /\ out.t = "url"
  /\ ~out.frag
  /\ out.q \cap Tracking = {}
  /\ out.q = input.q \ Tracking

\* C20 as claimed: a parsable URL comes out without fragment and tracking parameters
\* and with every other parameter; every unparsable input comes out unchanged.
C20_UnparsableUnchanged ==
  Canonicalized =>
    IF aux.input.t = "url" THEN CanonShape(aux.input, aux.once) ELSE aux.once = aux.input

\* C20 amended: a parsable URL comes out without fragment and tracking parameters and
\* with every other parameter; a non-empty unparsable input comes out unchanged; the
\* empty string and an absent input come out as undefined.
C20_CanonShapeOrUnchanged ==
  Canonicalized =>
    IF aux.input.t = "url" THEN CanonShape(aux.input, aux.once)
    ELSE IF Truthy(aux.input) THEN aux.once = aux.input
    ELSE aux.once = Undef

\* C20 witness: a URL with a fragment, a tracking parameter and another parameter has
\* been canonicalized and keeps only the other parameter.
C20_TrackingDropped ==
  /\ Canonicalized
  /\ aux.input = Url(<<"a">>, {"utm_source", "id"}, TRUE, FALSE)
  /\ aux.once = Url(<<"a">>, {"id"}, FALSE, TRUE)

\* The Feed table is no larger than one listing.
OneListing == aux.others + Cardinality(FeedIds) <= take

\* C21: a tick that raises partway does not end the scheduling process, and (in a Feed
\* table no larger than one listing) each feed it left without a job gets one from a
\* later tick unless it stops being due.
C21_RaisedTickRetried ==
  /\ [](aux.alive)
  /\ \A f \in FeedIds :
       (OneListing /\ f \in aux.missed)
         ~> (f \in aux.retried \/ ~(feeds[f].exists /\ Enqueues(feeds[f], clock)))

\* A tick has given a job to a feed that the raising tick before it had not reached.
C21_MissedFeedEnqueued ==
  aux.alive /\ OneListing /\ aux.retried # {} /\ aux.missed = {}

\* C22: a step of a job for one feed leaves the Feed rows and the Item rows of every
\* other feed as they were, and the row its candidate search settles on is a row of
\* its own feed, also when the other feed stores the same guids.
C22_OtherFeedsUntouched ==
  [][\A w \in Workers :
       workers[w].pc # "idle" /\ Steps(w) =>
         /\ \A f \in FeedIds \ {Feed(w)} : feeds'[f] = feeds[f]
         /\ {r \in items' : r.feedId # Feed(w)} = {r \in items : r.feedId # Feed(w)}
         /\ workers'[w].pc = "updateMany" =>
              RowsOfKey(items, Feed(w), workers'[w].existing) # {}]_vars

\* A job has created, under its own feed, a guid that the other feed stores too.
C22_SameGuidUnderBothFeeds ==
  \E w \in Workers, r \in items, o \in items :
    /\ workers[w].result = Returned(200, 2, 0)
    /\ r.feedId # o.feedId /\ r.guid = o.guid

\* C27: a tick that runs to its end gives one job to every feed of the store that is
\* due, and none to any other.
C27_OneJobPerDueFeed ==
  [][\A l \in SUBSET FeedIds :
       TickOn(l) =>
         \A f \in FeedIds :
           queue'[f] = queue[f] + (IF feeds[f].exists /\ Enqueues(feeds[f], clock) THEN 1 ELSE 0)]_vars

\* C28: when the store refuses the write of an entry's Item, performFetch rejects, so
\* that the error reaches the queue, and the entry is counted neither as inserted nor
\* as skipped.
C28_WriteErrorPropagates ==
  [][\A w \in Workers :
       WriteFails(w) =>
         /\ workers'[w].result.kind = "raised"
         /\ workers'[w].inserted + workers'[w].skipped <= workers[w].inserted + workers[w].skipped]_vars

\* C29: the link of an entry, exactly as the document writes it, is one of the
\* entry's identity candidates.
C29_RawLinkIsCandidate ==
  \A w \in Workers :
    workers[w].pc \in {"findFirst", "updateMany", "findUnique", "update", "create"}
    /\ Truthy(Entry(w).link) =>
      Entry(w).link \in Entry(w).candidates

\* C30: the row created for an entry that matched nothing is stored under the
\* canonicalized link when the entry has a link, else under the feed's guid when it
\* has one, else under the hash of feedId, link, title and publication date.
C30_EffectiveGuidPriority ==
  [][\A w \in Workers :
       workers[w].pc = "create" /\ items' # items =>
         LET n == Entry(w)
             key == IF Truthy(n.link) THEN n.urlCanon
                    ELSE IF Truthy(n.guid) THEN n.guid
                    ELSE hashGuidFallback(Feed(w), n.link, n.title, n.pub)
         IN \A r \in items' \ items : r.guid = key]_vars

\* C23: no two Feed rows carry the same url, and a POST /feeds of a url that a row
\* carries when the request arrives creates nothing and answers 200 with that row.
C23_OneFeedPerUrl ==
  /\ [](\A f \in FeedIds, g \in FeedIds :
          feeds[f].exists /\ feeds[g].exists /\ feeds[f].url = feeds[g].url => f = g)
  /\ [][\A c \in {"c1", "c2"}, f \in FeedIds :
          /\ aux.reqs[c].pc = "idle" /\ aux'.reqs[c] # aux.reqs[c]
          /\ feeds[f].exists /\ feeds[f].url = aux'.reqs[c].url
          => /\ feeds' = feeds
             /\ aux'.reqs[c].status = 200 /\ aux'.reqs[c].id = f]_vars

\* Two clients posted the same new url at once: one created the row, the other's
\* INSERT was refused; a third request for the url was answered with the row.
C23_DuplicatePostSettled ==
  /\ aux.reqs["c1"].status = 200 /\ aux.reqs["c1"].pc = "idle"
  /\ feeds[aux.reqs["c1"].id].exists
  /\ feeds[aux.reqs["c1"].id].url = aux.reqs["c1"].url
  /\ aux.reqs["c2"].status = 500 /\ aux.reqs["c2"].url = aux.reqs["c1"].url

\* C24: a write placed on the offline queue is in the stored queue until a flush has
\* sent it and the server has answered with success or 401.
C24_QueuedWriteKept ==
  \A j \in aux.queued :
    j \in aux.settled \/ \E k \in 1..Len(aux.stored) : aux.stored[k] = j

\* C25: a write request is placed on the offline queue exactly when its fetch fails
\* with a network error.
C25_QueuedOnNetworkErrorOnly ==
  [][aux'.last # aux.last =>
       (aux'.last.job \in aux'.queued <=> aux'.last.outcome = "network")]_vars

\* C26: a folder or saved search changes only through a request of the user who owns
\* it, and a request the schema accepts, made by another user for an existing one,
\* is answered 404.
C26_OwnerOnly ==
  [][/\ \A id \in DOMAIN aux.rows :
          aux'.rows[id] # aux.rows[id] =>
            \E u \in DOMAIN aux.reqs :
              /\ aux.reqs[u].pc = "write" /\ aux'.reqs[u].pc = "idle"
              /\ aux.reqs[u].id = id /\ aux.rows[id].userId = u
     /\ \A u \in DOMAIN aux.reqs :
          /\ aux.reqs[u].pc = "idle" /\ aux'.reqs[u] # aux.reqs[u]
          /\ aux'.reqs[u].status # 400
          /\ aux.rows[aux'.reqs[u].id].exists
          /\ aux.rows[aux'.reqs[u].id].userId # u
          => aux'.reqs[u].pc = "idle" /\ aux'.reqs[u].status = 404]_vars

\* The owner has renamed a folder, and the other user's request for the same folder
\* was answered 404.
C26_StrangerRefused ==
  /\ aux.reqs["u1"].status = 200 /\ aux.reqs["u1"].id = "r1"
  /\ aux.rows["r1"].exists /\ aux.rows["r1"].name = aux.reqs["u1"].name
  /\ aux.reqs["u2"].status = 404 /\ aux.reqs["u2"].id = "r1" /\ aux.reqs["u2"].op = "patch"

\* C31: when an entry matches a stored row, by the candidate search or by the lookup
\* of its effective guid, the write that follows creates no row and leaves every
\* (feedId, guid) key as it was, counts the entry as skipped and not as inserted, and
\* the matched row keeps its id and the stored value of every column for which the
\* entry carries nothing.
C31_MatchUpdatesInPlace ==
  [][\A w \in Workers :
       workers[w].pc \in {"updateMany", "update"} /\ Steps(w) =>
         LET n == Entry(w)
             key == IF workers[w].pc = "updateMany" THEN workers[w].existing
                    ELSE n.effectiveGuid
         IN /\ RowsOfKey(items, Feed(w), key) # {}
            /\ KeysOf(items') = KeysOf(items)
            /\ Cardinality(items') = Cardinality(items)
            /\ workers'[w].inserted = workers[w].inserted
            /\ workers'[w].skipped = workers[w].skipped + 1
            /\ \A r \in RowsOfKey(items, Feed(w), key) :
                 \E s \in RowsOfKey(items', Feed(w), key) :
                   /\ s.id = r.id
                   /\ n.title = Undef => s.title = r.title
                   /\ n.urlCanon = Undef /\ n.url = Undef => s.url = r.url
                   /\ n.html = Undef => s.contentHtml = r.contentHtml
                   /\ s.contentText = r.contentText
                   /\ n.pub = Undef => s.publishedAt = r.publishedAt]_vars

\* C31 witness: an entry without a title whose link canonicalizes to a stored row's
\* guid was matched and skipped; the row is still the only one and has its title.
C31_UntitledMatchKeptTitle ==
  \E w \in Workers :
    /\ workers[w].pc = "meta"
    /\ workers[w].doc.entries = <<EntryAmp>>
    /\ workers[w].skipped = 1
    /\ workers[w].inserted = 0
    /\ items = {Row(Feed(w), LinkA, 1, CreateData(Normalize(Feed(w), EntryA)))}

\* C32: every value ingestion extracts for a persisted field (guid, title, url,
\* contentHtml) is text or absent, never an object and never "[object Object]", in
\* each data object it hands to the store and in each stored row.
C32_PersistedFieldsAreText ==
  /\ \A w \in Workers :
       workers[w].pc \in {"updateMany", "update", "create"} =>
         LET n == Entry(w)
         IN \A v \in {n.guid, n.title, Coalesce(n.urlCanon, n.url), n.html} :
              v = Undef \/ (IsString(v) /\ v # Str("[object Object]"))
  /\ \A r \in items :
       /\ r.guid.t \in {"str", "url", "hash"}
       /\ \A v \in {r.title, r.url, r.contentHtml} :
            v = Null \/ (IsString(v) /\ v # Str("[object Object]"))

\* C33: when a cycle returns status 200, the feed's stored etag and lastModified are
\* the validators that response carried, and none where it carried none.
C33_ValidatorsFromLatestResponse ==
  [][\A w \in Workers :
       Returns(w) /\ workers'[w].result.status = 200 =>
         /\ feeds'[Feed(w)].etag = Coalesce(workers[w].etag, Null)
         /\ feeds'[Feed(w)].lastModified = Coalesce(workers[w].lastMod, Null)]_vars

\* C34: the publishedAt an entry brings is the Date of the first of pubDate, published
\* and updated that is a parsable date string.  A created row carries it, and NULL when
\* there is none; a matched row takes it, and keeps its stored publishedAt when there
\* is none.
C34_FirstParsableDate ==
  [][\A w \in Workers :
       workers[w].pc \in {"updateMany", "update", "create"} /\ Steps(w) =>
         LET raw == workers[w].doc.entries[workers[w].i]
             first == IF raw.pubDate.t = "datestr" THEN Date(raw.pubDate.v)
                      ELSE IF raw.published.t = "datestr" THEN Date(raw.published.v)
                      ELSE IF raw.updated.t = "datestr" THEN Date(raw.updated.v)
                      ELSE Undef
             key == IF workers[w].pc = "updateMany" THEN workers[w].existing
                    ELSE Entry(w).effectiveGuid
         IN IF workers[w].pc = "create"
            THEN \E s \in items' \ items :
                   s.publishedAt = (IF first = Undef THEN Null ELSE first)
            ELSE \A r \in RowsOfKey(items, Feed(w), key) :
                   \E s \in RowsOfKey(items', Feed(w), key) :
                     /\ s.id = r.id
                     /\ s.publishedAt = (IF first = Undef THEN r.publishedAt ELSE first)]_vars

\* C34 witness: at a later time an entry of a stored article came with no parsable
\* date (an unparsable pubDate and published) and was matched; the row still has the
\* publishedAt an earlier entry gave it.
C34_UndatedKeepsStoredDate ==
  \E w \in Workers :
    /\ workers[w].pc = "meta"
    /\ workers[w].doc.entries = <<Dated(EntryA, Str("soon"), Str("soon"), Undef)>>
    /\ workers[w].skipped = 1
    /\ clock > 0
    /\ \E r \in items : r.guid = LinkA /\ r.publishedAt = Date(2)

(***************************************************************************)
(* A feed whose upstream fails again and again, over a horizon of hours:   *)
(* the scheduler ticks, the worker fetches, the clock moves an hour at a   *)
(* time.  A failure is taken only while the window it opens ends within    *)
(* the horizon; past that the upstream answers 304.                        *)
(***************************************************************************)

\* The horizon, in hours.
MaxHours == 40

\* An hour passes.
HourPasses ==
  /\ clock < MaxHours * 60 * MINUTE
  /\ Advance(clock + 60 * MINUTE)

\* The upstream fails while the horizon has room for the window.
FailsInTime(w, jitter) ==
  /\ clock + DelayCeiling + 60 * MINUTE <= MaxHours * 60 * MINUTE
  /\ HttpError(w, 500, jitter)

SpecRetry ==
  InitDefault /\ [][\/ \E f \in FeedIds : StartJob("w1", f)
                    \/ \E j \in Jitters : FailsInTime("w1", j)
                    \/ Http304("w1")
                    \/ Tick
                    \/ HourPasses]_vars

\* The interval timer keeps firing, the worker keeps taking the jobs that wait and
\* every request is answered, and time goes on.
FairRetry ==
  /\ SpecRetry
  /\ WF_vars(Tick)
  /\ WF_vars(\E f \in FeedIds : StartJob("w1", f))
  /\ WF_vars(Http304("w1") \/ \E j \in Jitters : FailsInTime("w1", j))
  /\ WF_vars(HourPasses)

\* C35: every failure sets a backoffUntil no more than 6 hours + 30 seconds after the
\* failed fetch, and a feed inside its backoff window is, later on, being fetched at a
\* time when the window it then has is over.
C35_BackoffEndsAndFeedRefetched ==
  /\ [][\A w \in Workers, j \in Jitters :
          HttpError(w, 500, j) =>
            /\ feeds'[Feed(w)].backoffUntil # Null
            /\ feeds'[Feed(w)].backoffUntil.v > clock
            /\ feeds'[Feed(w)].backoffUntil.v - clock <= DelayCeiling]_vars
  /\ \A f \in {"f1"} :
       (feeds[f].backoffUntil # Null /\ feeds[f].backoffUntil.v > clock)
         ~> (/\ workers["w1"].pc = "fetch"
             /\ workers["w1"].feedId = f
             /\ feeds[f].backoffUntil # Null => feeds[f].backoffUntil.v <= clock)

\* C35 witness: a feed at the ceiling of ten failures, its window of six hours over, is
\* being fetched again.
C35_RefetchedAfterLongestWindow ==
  /\ workers["w1"].pc = "fetch"
  /\ workers["w1"].feedId = "f1"
  /\ feeds["f1"].errorCount = 10
  /\ feeds["f1"].backoffUntil # Null
  /\ feeds["f1"].backoffUntil.v - feeds["f1"].lastFetched.v >= 6 * 60 * MINUTE
  /\ feeds["f1"].backoffUntil.v <= clock

\* C36: in every state each feed's errorCount is between 0 and 10, and a failure
\* recorded for a feed whose errorCount is 10 leaves it at 10.
C36_ErrorCountWithinTen ==
  /\ [](\A f \in FeedIds : feeds[f].errorCount \in 0..10)
  /\ [][\A w \in Workers, st \in FailStatuses, j \in Jitters :
          HttpError(w, st, j) /\ feeds[Feed(w)].errorCount = 10 =>
            feeds'[Feed(w)].errorCount = 10]_vars

\* C36 witness: the eleventh failure in a row has been recorded and the count is 10,
\* with the longest window ahead.
C36_EleventhFailureAtTen ==
  /\ feeds["f1"].errorCount = 10
  /\ workers["w1"].pc = "idle"
  /\ workers["w1"].prev = 10
  /\ workers["w1"].result.kind = "returned"
  /\ workers["w1"].result.status \in FailStatuses
  /\ feeds["f1"].backoffUntil # Null
  /\ feeds["f1"].backoffUntil.v > clock

\* C37: when performFetch raises at the request, in the parser or at the write of an
\* item, that step leaves the feed's lastFetched, errorCount and backoffUntil as they
\* were, the errorCount being the one the cycle loaded; a feed the scheduler would
\* enqueue before the step is one it would enqueue after it.
C37_RaiseLeavesMetadata ==
  [][\A w \in Workers :
       /\ workers[w].pc # "idle"
       /\ workers'[w].pc = "idle"
       /\ workers'[w].result.kind = "raised"
       /\ workers'[w].result.at \in {"fetch", "parse", "item.update", "item.create"}
       => /\ feeds'[Feed(w)].lastFetched = feeds[Feed(w)].lastFetched
          /\ feeds'[Feed(w)].errorCount = feeds[Feed(w)].errorCount
          /\ feeds'[Feed(w)].errorCount = workers[w].prev
          /\ feeds'[Feed(w)].backoffUntil = feeds[Feed(w)].backoffUntil
          /\ Enqueues(feeds[Feed(w)], clock) => Enqueues(feeds'[Feed(w)], clock')]_vars

\* C37 witness: a cycle of a never-fetched feed raised at the write of its second
\* entry, after the first was stored; the feed is as good as never fetched, and the
\* next tick has enqueued it again.
C37_RaisedAndEnqueuedAgain ==
  /\ workers["w1"].result = Raised("item.create")
  /\ items # {}
  /\ feeds["f1"].lastFetched = Null
  /\ feeds["f1"].errorCount = 0
  /\ feeds["f1"].backoffUntil = Null
  /\ queue["f1"] = 1

C39_DueFeedEnqueuedAgain ==
  \A f \in FeedIds :
    feeds[f].exists /\ Enqueues(feeds[f], clock) /\ queue[f] < MaxPending =>
      ENABLED (TickWithin(MaxPending) /\ queue'[f] = queue[f] + 1)

\* C39 witness: a feed that was never fetched has a job being worked on and more than
\* one waiting.
C39_JobsPileUp ==
  /\ feeds["f1"].lastFetched = Null
  /\ workers["w1"].pc = "fetch"
  /\ workers["w1"].feedId = "f1"
  /\ queue["f1"] > 1

====
